---- MODULE Spec2Model ----
(***************************************************************************)
(* Model of the Case-Lens PDF pipeline (src/caselens/pdf_processor.py):    *)
(* PdfProcessor.process and its helpers (_clean_text, _detect_scanned,     *)
(* _attempt_ocr, _chunk_pages, _find_break_point, _find_source_pages,      *)
(* _build_result) together with the collaborators it calls.                *)
(*                                                                         *)
(* A text is a sequence of characters, each character a one-character      *)
(* string.  Character positions are 0-based offsets as in Python; the      *)
(* character at offset i of a text s is s[i + 1].                          *)
(***************************************************************************)
EXTENDS Integers, Sequences, FiniteSets, TLC

(***************************************************************************)
(* Text primitives (Python str operations used by the code).               *)
(***************************************************************************)

\* str.strip() / rstrip() / the regex class \s: Python's whitespace characters
\* (those a TLA+ string can spell).
WS == {" ", "\t", "\n", "\r", "\f"}

\* The regex class \d.
DIGIT == {"0", "1", "2", "3", "4", "5", "6", "7", "8", "9"}

\* The regex class [A-Z].
UPPER == {"A", "B", "C", "D", "E", "F", "G", "H", "I", "J", "K", "L", "M",
          "N", "O", "P", "Q", "R", "S", "T", "U", "V", "W", "X", "Y", "Z"}

\* The lower-case letters a-z.
LOWER == {"a", "b", "c", "d", "e", "f", "g", "h", "i", "j", "k", "l", "m",
          "n", "o", "p", "q", "r", "s", "t", "u", "v", "w", "x", "y", "z"}

\* The regex class \w (word characters), as far as \b needs it.
WORD == UPPER \cup LOWER \cup DIGIT \cup {"_"}

\* s[a:b] for 0 <= a, b (Python slice with both ends clamped to the text).
Slice(s, a, b) ==
    LET hi == IF b > Len(s) THEN Len(s) ELSE b
    IN  IF a >= hi THEN << >> ELSE SubSeq(s, a + 1, hi)

\* Offset of the first non-whitespace character at or after offset i (Len(s) if none).
RECURSIVE SkipWsRight(_, _)
SkipWsRight(s, i) ==
    IF i < Len(s) /\ s[i + 1] \in WS THEN SkipWsRight(s, i + 1) ELSE i

\* Offset just after the last non-whitespace character before offset j (0 if none).
RECURSIVE SkipWsLeft(_, _)
SkipWsLeft(s, j) ==
    IF j > 0 /\ s[j] \in WS THEN SkipWsLeft(s, j - 1) ELSE j

\* str.rstrip()
RStrip(s) == Slice(s, 0, SkipWsLeft(s, Len(s)))

\* str.strip()
Strip(s) ==
    LET a == SkipWsRight(s, 0)
    IN  IF a = Len(s) THEN << >> ELSE Slice(s, a, SkipWsLeft(s, Len(s)))

\* str.rfind(sub) for the two-character needle "\n\n": the highest offset i with
\* s[i:i+2] = "\n\n", or -1.
RFindParagraph(s) ==
    LET hits == {i \in 0..(Len(s) - 2) : s[i + 1] = "\n" /\ s[i + 2] = "\n"}
    IN  IF hits = {} THEN -1 ELSE CHOOSE i \in hits : \A j \in hits : j <= i

(***************************************************************************)
(* Regular expressions (Python re), as far as the code's patterns use      *)
(* them.  A pattern is a record tagged by t:                               *)
(*   "in"    one character of set          "notin" one character not in set*)
(*   "seq"   rs[1] rs[2] ...               "alt"   rs[1] | rs[2] | ...      *)
(*   "rep"   r{min,max}, greedy (max = -1: unbounded)                      *)
(*   "bol"   ^ under re.MULTILINE          "eol"   $ under re.MULTILINE    *)
(*   "wb"    \b                            "ahead" (?=r)                   *)
(* Ends(r, s, i) lists the offsets at which a match of r starting at       *)
(* offset i can end, in the order the backtracking matcher tries them; its *)
(* first element is the end of the match Python reports at i.              *)
(***************************************************************************)
In(S) == [t |-> "in", set |-> S]
NotIn(S) == [t |-> "notin", set |-> S]
Cat(rs) == [t |-> "seq", rs |-> rs]
Alt(rs) == [t |-> "alt", rs |-> rs]
Rep(r, lo, hi) == [t |-> "rep", r |-> r, min |-> lo, max |-> hi]
Opt(r) == Rep(r, 0, 1)
Star(r) == Rep(r, 0, -1)
Plus(r) == Rep(r, 1, -1)
Bol == [t |-> "bol"]
Eol == [t |-> "eol"]
WordBoundary == [t |-> "wb"]
Ahead(r) == [t |-> "ahead", r |-> r]

\* A literal word, case-sensitive.
Lit(w) == Cat([k \in 1..Len(w) |-> In({w[k]})])

\* The characters that match the pattern character c under re.IGNORECASE
\* (Unicode matching: both cases, and the characters whose case folding is c).
CaseFold(c) ==
    LET up == <<"A", "B", "C", "D", "E", "F", "G", "H", "I", "J", "K", "L", "M",
                "N", "O", "P", "Q", "R", "S", "T", "U", "V", "W", "X", "Y", "Z",
                "E_ACUTE">>
        lo == <<"a", "b", "c", "d", "e", "f", "g", "h", "i", "j", "k", "l", "m",
                "n", "o", "p", "q", "r", "s", "t", "u", "v", "w", "x", "y", "z",
                "e_acute">>
        ks == {k \in 1..Len(up) : up[k] = c \/ lo[k] = c}
    IN  {c} \cup {up[k] : k \in ks} \cup {lo[k] : k \in ks}

\* A literal word under re.IGNORECASE.
LitI(w) == Cat([k \in 1..Len(w) |-> In(CaseFold(w[k]))])

IsWordAt(s, i) == i >= 0 /\ i < Len(s) /\ s[i + 1] \in WORD

RECURSIVE Ends(_, _, _), SeqEnds(_, _, _, _), SeqOver(_, _, _, _),
          AltEnds(_, _, _, _), RepEnds(_, _, _, _), RepOver(_, _, _, _)
Ends(r, s, i) ==
    CASE r.t = "in"    -> IF i < Len(s) /\ s[i + 1] \in r.set THEN <<i + 1>> ELSE << >>
      [] r.t = "notin" -> IF i < Len(s) /\ s[i + 1] \notin r.set THEN <<i + 1>> ELSE << >>
      [] r.t = "bol"   -> IF i = 0 \/ s[i] = "\n" THEN <<i>> ELSE << >>
      [] r.t = "eol"   -> IF i = Len(s) \/ s[i + 1] = "\n" THEN <<i>> ELSE << >>
      [] r.t = "wb"    -> IF IsWordAt(s, i - 1) # IsWordAt(s, i) THEN <<i>> ELSE << >>
      [] r.t = "ahead" -> IF Ends(r.r, s, i) # << >> THEN <<i>> ELSE << >>
      [] r.t = "seq"   -> SeqEnds(r.rs, 1, s, i)
      [] r.t = "alt"   -> AltEnds(r.rs, 1, s, i)
      [] r.t = "rep"   -> RepEnds(r, s, i, 0)

\* rs[k] rs[k+1] ... from offset i.
SeqEnds(rs, k, s, i) ==
    IF k > Len(rs) THEN <<i>> ELSE SeqOver(rs, k + 1, s, Ends(rs[k], s, i))

SeqOver(rs, k, s, es) ==
    IF es = << >> THEN << >>
    ELSE SeqEnds(rs, k, s, Head(es)) \o SeqOver(rs, k, s, Tail(es))

\* rs[k] | rs[k+1] | ... from offset i: the alternatives in order.
AltEnds(rs, k, s, i) ==
    IF k > Len(rs) THEN << >> ELSE Ends(rs[k], s, i) \o AltEnds(rs, k + 1, s, i)

\* r.r repeated, n repetitions done so far: greedy, one more repetition is
\* tried before stopping.
RepEnds(r, s, i, n) ==
    LET more == IF r.max = -1 \/ n < r.max
                THEN RepOver(r, s, SelectSeq(Ends(r.r, s, i), LAMBDA e : e > i), n + 1)
                ELSE << >>
        stop == IF n >= r.min THEN <<i>> ELSE << >>
    IN  more \o stop

RepOver(r, s, es, n) ==
    IF es = << >> THEN << >>
    ELSE RepEnds(r, s, Head(es), n) \o RepOver(r, s, Tail(es), n)

\* pattern.sub(repl, s): the leftmost non-overlapping matches, scanning from
\* offset i, each replaced by repl.
RECURSIVE SubFrom(_, _, _, _)
SubFrom(r, repl, s, i) ==
    IF i > Len(s) THEN << >>
    ELSE LET es == Ends(r, s, i)
             here == IF i < Len(s) THEN <<s[i + 1]>> ELSE << >>
         IN  IF es = << >> THEN here \o SubFrom(r, repl, s, i + 1)
             ELSE IF Head(es) > i THEN repl \o SubFrom(r, repl, s, Head(es))
             ELSE repl \o here \o SubFrom(r, repl, s, i + 1)

Sub(r, repl, s) == SubFrom(r, repl, s, 0)

\* pattern.finditer(s): the [start, end) spans of the leftmost non-overlapping
\* matches, scanning from offset i.
RECURSIVE FindIter(_, _, _)
FindIter(r, s, i) ==
    IF i > Len(s) THEN << >>
    ELSE LET es == Ends(r, s, i)
         IN  IF es = << >> THEN FindIter(r, s, i + 1)
             ELSE <<[start |-> i, end |-> Head(es)]>>
                  \o FindIter(r, s, IF Head(es) > i THEN Head(es) ELSE i + 1)

(***************************************************************************)
(* Text cleaner: PdfProcessor.CLEANING_PATTERNS and _clean_text.           *)
(* The non-ASCII characters of the patterns are spelt as tokens:           *)
(* EN_DASH (U+2013), EM_DASH (U+2014), E_ACUTE (U+00C9), e_acute (U+00E9). *)
(***************************************************************************)
DASH == {"-", "EN_DASH", "EM_DASH"}

Ws0 == Star(In(WS))
Ws1 == Plus(In(WS))

\* 1. Bates stamps: \b[A-Z]{2,10}[-\s]\d{6,10}\b
BatesPattern ==
    Cat(<<WordBoundary, Rep(In(UPPER), 2, 10), In({"-"} \cup WS),
          Rep(In(DIGIT), 6, 10), WordBoundary>>)

\* 2. Page numbers (re.MULTILINE):
\*    ^\s*[-–—]?\s*(?:[Pp]age\s+)?\d{1,5}
\*    (?:\s+(?:of|de|sur)\s+\d{1,5})?\s*[-–—]?\s*$
PageNumberPattern ==
    Cat(<<Bol, Ws0, Opt(In(DASH)), Ws0,
          Opt(Cat(<<In({"P", "p"}), Lit(<<"a", "g", "e">>), Ws1>>)),
          Rep(In(DIGIT), 1, 5),
          Opt(Cat(<<Ws1, Alt(<<Lit(<<"o", "f">>), Lit(<<"d", "e">>), Lit(<<"s", "u", "r">>)>>),
                    Ws1, Rep(In(DIGIT), 1, 5)>>)),
          Ws0, Opt(In(DASH)), Ws0, Eol>>)

\* 3. Confidentiality footers, English (re.MULTILINE | re.IGNORECASE).
EnglishFooterPattern ==
    Alt(<<
      Cat(<<Bol, Ws0,
            Opt(Cat(<<LitI(<<"P","R","I","V","I","L","E","G","E","D">>), Ws1,
                      LitI(<<"A","N","D">>), Ws1>>)),
            LitI(<<"C","O","N","F","I","D","E","N","T","I","A","L">>),
            Opt(Cat(<<Ws0, In(DASH), Ws0, Star(NotIn({"\n"}))>>)), Eol>>),
      Cat(<<Bol, Ws0, LitI(<<"A","T","T","O","R","N","E","Y">>), In(WS \cup {"-"}),
            LitI(<<"C","L","I","E","N","T">>), Ws1,
            LitI(<<"P","R","I","V","I","L","E","G","E">>), Opt(In(CaseFold("D"))),
            Ws0, Eol>>),
      Cat(<<Bol, Ws0, LitI(<<"A","T","T","O","R","N","E","Y">>), Ws1,
            LitI(<<"W","O","R","K">>), Ws1, LitI(<<"P","R","O","D","U","C","T">>),
            Ws0, Eol>>),
      Cat(<<Bol, Ws0, LitI(<<"D","O">>), Ws1, LitI(<<"N","O","T">>), Ws1,
            LitI(<<"D","I","S","T","R","I","B","U","T","E">>), Ws0, Eol>>),
      Cat(<<Bol, Ws0, LitI(<<"F","O","R">>), Ws1,
            LitI(<<"S","E","T","T","L","E","M","E","N","T">>), Ws1,
            LitI(<<"P","U","R","P","O","S","E","S">>), Ws1, LitI(<<"O","N","L","Y">>),
            Ws0, Eol>>)
    >>)

\* 4. Confidentiality footers, French (re.MULTILINE | re.IGNORECASE).
FrenchFooterPattern ==
    LET EorEacute == In(CaseFold("E") \cup CaseFold("E_ACUTE"))
    IN  Alt(<<
      Cat(<<Bol, Ws0, LitI(<<"C","O","N","F","I","D","E","N","T","I","E","L">>),
            Opt(LitI(<<"L","E">>)), Ws0, Eol>>),
      Cat(<<Bol, Ws0, LitI(<<"P","R","O","T">>), EorEacute, LitI(<<"G">>),
            Opt(EorEacute), Ws1, LitI(<<"P","A","R">>), Ws1, LitI(<<"L","E">>), Ws1,
            LitI(<<"S","E","C","R","E","T">>), Ws1,
            LitI(<<"P","R","O","F","E","S","S","I","O","N","N","E","L">>), Ws0, Eol>>),
      Cat(<<Bol, Ws0, LitI(<<"N","E">>), Ws1, LitI(<<"P","A","S">>), Ws1,
            LitI(<<"D","I","S","T","R","I","B","U","E","R">>), Ws0, Eol>>)
    >>)

\* 5. Separator lines (re.MULTILINE): ^\s*[=_\-]{3,}\s*$
SeparatorPattern == Cat(<<Bol, Ws0, Rep(In({"=", "_", "-"}), 3, -1), Ws0, Eol>>)

\* 6. Form feed characters: \f
FormFeedPattern == In({"\f"})

\* 7. Collapse 3+ newlines into 2: \n{3,}
NewlinesPattern == Rep(In({"\n"}), 3, -1)

\* 8. Strip trailing whitespace per line (re.MULTILINE): [ \t]+$
TrailingWsPattern == Cat(<<Plus(In({" ", "\t"})), Eol>>)

\* The (pattern, replacement) pairs, in the order they are applied.
CLEANING_PATTERNS ==
    << <<BatesPattern, << >> >>,
       <<PageNumberPattern, << >> >>,
       <<EnglishFooterPattern, << >> >>,
       <<FrenchFooterPattern, << >> >>,
       <<SeparatorPattern, << >> >>,
       <<FormFeedPattern, << >> >>,
       <<NewlinesPattern, <<"\n", "\n">> >>,
       <<TrailingWsPattern, << >> >> >>

\* The loop of _clean_text: patterns k, k+1, ... applied in order.
RECURSIVE ApplyPatterns(_, _)
ApplyPatterns(text, k) ==
    IF k > Len(CLEANING_PATTERNS) THEN text
    ELSE ApplyPatterns(Sub(CLEANING_PATTERNS[k][1], CLEANING_PATTERNS[k][2], text), k + 1)

\* PdfProcessor._clean_text
CleanText(text) ==
    IF text = << >> THEN << >> ELSE Strip(ApplyPatterns(text, 1))

(***************************************************************************)
(* Configuration.  Lengths and counts are scaled down so that the state    *)
(* space is finite and small: the code's values are given in the comments. *)
(* MAX_CHUNK_SIZE and CHUNK_OVERLAP are attributes read through self and   *)
(* are state variables below; their defaults are scaled here.              *)
(***************************************************************************)
\* PdfProcessor.MAX_PAGES (500 in the code)
MAX_PAGES == 3
\* PdfProcessor.SCANNED_MIN_CHARS_PER_PAGE (50 in the code)
SCANNED_MIN_CHARS_PER_PAGE == 2
\* PdfProcessor.SCANNED_PAGE_RATIO (0.80 in the code) as the fraction 4 / 5
SCANNED_PAGE_RATIO_NUM == 4
SCANNED_PAGE_RATIO_DEN == 5
\* PdfProcessor.MAX_CHUNK_SIZE (80_000 in the code)
DEFAULT_MAX_CHUNK_SIZE == 5
\* PdfProcessor.CHUNK_OVERLAP (500 in the code)
DEFAULT_CHUNK_OVERLAP == 1
\* The look-back window of _find_break_point (2000 in the code)
BREAK_SEARCH_WINDOW == 3

(***************************************************************************)
(* Chunker: _find_break_point, _find_source_pages and the pieces of        *)
(* _chunk_pages.                                                           *)
(***************************************************************************)
\* The sentence-break pattern of _find_break_point: \.\s+(?=[A-ZÀ-Ü])
SentencePattern == Cat(<<In({"."}), Ws1, Ahead(In(UPPER \cup {"E_ACUTE"}))>>)

Max(a, b) == IF a >= b THEN a ELSE b

\* _find_break_point with a hard break one character past the window's end.
FindBreakPoint_HardBreakPastEnd(text, start, end) ==
    LET search_start == Max(start, end - BREAK_SEARCH_WINDOW)
        region == Slice(text, search_start, end)
        para_idx == RFindParagraph(region)
        matches == FindIter(SentencePattern, region, 0)
    IN  IF para_idx # -1 THEN search_start + para_idx + 2
        ELSE IF matches # << >> THEN search_start + matches[Len(matches)].end
        ELSE end + 1

\* PdfProcessor._find_break_point(text, start, end)
FindBreakPoint(text, start, end) ==
    LET search_start == Max(start, end - BREAK_SEARCH_WINDOW)
        region == Slice(text, search_start, end)
        para_idx == RFindParagraph(region)
        matches == FindIter(SentencePattern, region, 0)
    IN  IF para_idx # -1 THEN search_start + para_idx + 2
        ELSE IF matches # << >> THEN search_start + matches[Len(matches)].end
        ELSE end

\* The loop of _find_source_pages over page_boundaries[k..]: each entry whose
\* offset is <= start overwrites first_page, each whose offset is < end
\* overwrites last_page.
RECURSIVE ScanBoundaries(_, _, _, _, _)
ScanBoundaries(start, end, page_boundaries, k, fl) ==
    IF k > Len(page_boundaries) THEN fl
    ELSE LET b == page_boundaries[k]
             first_page == IF b.offset <= start THEN b.page_number ELSE fl[1]
             last_page == IF b.offset < end THEN b.page_number ELSE fl[2]
         IN  ScanBoundaries(start, end, page_boundaries, k + 1, <<first_page, last_page>>)

\* _find_source_pages returning [last_page, first_page].
FindSourcePages_Swapped(start, end, page_boundaries) ==
    LET fl == ScanBoundaries(start, end, page_boundaries, 1,
                             <<page_boundaries[1].page_number,
                               page_boundaries[Len(page_boundaries)].page_number>>)
    IN  <<fl[2], fl[1]>>

\* _find_source_pages whose first_page stays at the first boundary's page.
FindSourcePages_FirstPageNeverAdvances(start, end, page_boundaries) ==
    LET fl == ScanBoundaries(start, end, page_boundaries, 1,
                             <<page_boundaries[1].page_number,
                               page_boundaries[Len(page_boundaries)].page_number>>)
    IN  <<page_boundaries[1].page_number, fl[2]>>

\* PdfProcessor._find_source_pages(start, end, page_boundaries)
FindSourcePages(start, end, page_boundaries) ==
    ScanBoundaries(start, end, page_boundaries, 1,
                   <<page_boundaries[1].page_number,
                     page_boundaries[Len(page_boundaries)].page_number>>)

\* The first loop of _chunk_pages over pages[k..]: acc.text is full_text so
\* far, acc.bounds the (offset, page_number) pairs recorded so far.
RECURSIVE Concatenate(_, _, _)
Concatenate(ps, k, acc) ==
    IF k > Len(ps) THEN acc
    ELSE Concatenate(ps, k + 1,
           [text |-> acc.text \o ps[k].cleaned_text \o <<"\n", "\n">>,
            bounds |-> Append(acc.bounds,
                              [offset |-> Len(acc.text), page_number |-> ps[k].page_number])])

\* full_text after the first loop and the rstrip()
FullText(ps) == RStrip(Concatenate(ps, 1, [text |-> << >>, bounds |-> << >>]).text)

\* page_boundaries after the first loop
PageBoundaries(ps) == Concatenate(ps, 1, [text |-> << >>, bounds |-> << >>]).bounds

\* Mutant of Chunk: the text of every chunk is trimmed.
Chunk_Trimmed(index, text, source_pages) ==
    [chunk_index |-> index, text |-> Strip(text), char_count |-> Len(Strip(text)),
     source_pages |-> source_pages]

\* A chunk dict.
Chunk(index, text, source_pages) ==
    [chunk_index |-> index, text |-> text, char_count |-> Len(text),
     source_pages |-> source_pages]

\* The advance stepping one character past break_point in the degenerate case.
AdvancePos_SkipsCharacter(p, break_point, overlap) ==
    LET new_pos == break_point - overlap
    IN  IF new_pos <= p THEN break_point + 1 ELSE new_pos

\* The advance without overlap.
AdvancePos_NoOverlap(p, break_point, overlap) == break_point

\* The advance whose guard lets the position stay where it is.
AdvancePos_StallsWhenEqual(p, break_point, overlap) ==
    LET new_pos == break_point - overlap
    IN  IF new_pos < p THEN break_point ELSE new_pos

\* "Advance with overlap, ensuring forward progress": the next pos.
AdvancePos(p, break_point, overlap) ==
    LET new_pos == break_point - overlap
    IN  IF new_pos <= p THEN break_point ELSE new_pos

(***************************************************************************)
(* Bounds of the model.                                                    *)
(***************************************************************************)
\* Chunker specification: most pages in a document.
MaxDocPages == 3
\* Chunker specification: most characters of cleaned page text in a document.
MaxDocChars == 4
\* Chunker specification: MAX_CHUNK_SIZE ranges over 1..MaxChunkSize.
MaxChunkSize == 5
\* Chunker specification: CHUNK_OVERLAP ranges over 0..MaxOverlap.
MaxOverlap == 2

\* All texts over the characters cs of length at most n.
Texts(cs, n) == UNION {[1..k -> cs] : k \in 0..n}

(***************************************************************************)
(* State.                                                                  *)
(***************************************************************************)
VARIABLES
    file,                \* the input: [exists, is_pdf, doc], doc the raw page texts
    pdfminer_importable, \* whether pdfminer.pdfdocument can be imported
    MAX_CHUNK_SIZE,      \* self.MAX_CHUNK_SIZE
    CHUNK_OVERLAP,       \* self.CHUNK_OVERLAP
    pc,                  \* the stage process is in
    validation,          \* process: the value validate_pdf returned
    pages,               \* process: the page dicts
    ocr_info,            \* process: ocr_info
    full_text,           \* _chunk_pages: full_text
    page_boundaries,     \* _chunk_pages: page_boundaries
    pos,                 \* _chunk_pages: pos
    chunk_index,         \* _chunk_pages: chunk_index
    chunks,              \* _chunk_pages: chunks
    regions,             \* history: the [start, end) regions _chunk_pages visited
    calls,               \* history: the collaborator calls made, in order,
                         \* each [op, fault]: the fault it raised, or NoFault
    result,              \* the value process returned
    open_readers,        \* the pdfplumber reader handles open now
    total_pages,         \* _extract_with_pdfplumber: total_pages
    batch_start,         \* _extract_with_pdfplumber: batch_start
    batch_end,           \* _extract_with_pdfplumber: batch_end
    page_index,          \* _extract_with_pdfplumber: i
    max_requests,        \* RateLimiter: self.max_requests
    window_seconds,      \* RateLimiter: self.window_seconds
    requests,            \* RateLimiter: self._requests, key -> timestamps in ticks
    now,                 \* the reading of time.time(), in ticks
    allowed_at,          \* history: key -> the readings of the last window_seconds
                         \* at which is_allowed returned True
    last_call,           \* history: the last call of the limiter, [op, key, returned]
    api_key,             \* Summarizer: self.api_key
    extraction,          \* Summarizer.summarize: extraction
    spc,                 \* the place summarize is at
    chunk_summaries,     \* Summarizer.summarize: chunk_summaries
    model_calls,         \* history: the requests sent to the model, in order
    summary              \* the value summarize returned

readerVars == <<open_readers, total_pages, batch_start, batch_end, page_index>>
limiterVars == <<max_requests, window_seconds, requests, now, allowed_at, last_call>>
summarizerVars == <<api_key, extraction, spc, chunk_summaries, model_calls, summary>>
componentVars == <<readerVars, limiterVars, summarizerVars>>
pipelineVars == <<file, pdfminer_importable, MAX_CHUNK_SIZE, CHUNK_OVERLAP, pc, validation,
                  pages, ocr_info, full_text, page_boundaries, pos, chunk_index, chunks,
                  regions, calls, result>>

vars == <<file, pdfminer_importable, MAX_CHUNK_SIZE, CHUNK_OVERLAP, pc, validation,
          pages, ocr_info, full_text, page_boundaries, pos, chunk_index, chunks,
          regions, calls, result, componentVars>>

chunkerVars == <<full_text, page_boundaries, pos, chunk_index, chunks, regions>>
configVars == <<file, pdfminer_importable, MAX_CHUNK_SIZE, CHUNK_OVERLAP>>

\* No reader handle is open and no extraction is under way.
InitReaders ==
    /\ open_readers = 0
    /\ total_pages = 0
    /\ batch_start = 0
    /\ batch_end = 0
    /\ page_index = 0

\* The keys requests are made under.
Keys == {"key1", "key2"}

\* The values the calls of the limiter return.
RetBool(b) == [kind |-> "bool", val |-> IF b THEN 1 ELSE 0]
RetInt(n) == [kind |-> "int", val |-> n]
RetNone == [kind |-> "None", val |-> 0]
RetValueError == [kind |-> "ValueError", val |-> 0]

\* No call of the limiter made yet.
NoCall == [op |-> "none", key |-> "", returned |-> RetNone]

\* RateLimiter(max_requests=100, window_seconds=3600) of the HTTP front
\* end, scaled.
API_MAX_REQUESTS == 2
API_WINDOW_SECONDS == 2

\* RateLimiter.__init__: no request recorded.
LimiterConstructed ==
    /\ requests = [key \in Keys |-> << >>]
    /\ now = 0
    /\ allowed_at = [key \in Keys |-> << >>]
    /\ last_call = NoCall

InitLimiter ==
    /\ max_requests = API_MAX_REQUESTS
    /\ window_seconds = API_WINDOW_SECONDS
    /\ LimiterConstructed

\* No extraction handed to summarize, nothing returned.
NoExtraction == [pending |-> TRUE]
NoSummary == [pending |-> TRUE]

\* Summarizer.__init__ with an API key, summarize not called.
InitSummarizer ==
    /\ api_key = "sk"
    /\ extraction = NoExtraction
    /\ spc = "Idle"
    /\ chunk_summaries = << >>
    /\ model_calls = << >>
    /\ summary = NoSummary

\* The components outside the run of process, as constructed.
InitComponents == InitReaders /\ InitLimiter /\ InitSummarizer

\* Nothing returned yet.
NoResult == [pending |-> TRUE]
\* No validation made yet.
NoValidation == [pending |-> TRUE]
\* os.path.basename(filepath)
Filename == "doc.pdf"

\* ocr_info as process initialises it.
NoOcr == [ocr_applied |-> FALSE, ocr_pages |-> << >>]

(***************************************************************************)
(* Collaborators: what the PDF readers and the OCR engine can do.          *)
(***************************************************************************)
\* The exceptions a reader can raise: pdfminer's PDFEncryptionError, or any
\* other exception, whose text may or may not contain "encrypt".
Faults ==
    {[type |-> "PDFEncryptionError", encrypt_in_text |-> TRUE, text |-> "encrypted"],
     [type |-> "Exception", encrypt_in_text |-> TRUE, text |-> "cannot decrypt: encrypted"],
     [type |-> "Exception", encrypt_in_text |-> FALSE, text |-> "bad xref"]}

\* The exception _extract_with_pypdf raises for an encrypted document.
PasswordProtectedError ==
    [type |-> "PasswordProtectedError", encrypt_in_text |-> TRUE, text |-> "PDF is encrypted."]

\* The exceptions of the OCR engine.
OcrFault == [type |-> "Exception", encrypt_in_text |-> FALSE, text |-> "cause"]

\* _is_encryption_error(exc)
IsEncryptionError(exc) ==
    IF pdfminer_importable THEN exc.type = "PDFEncryptionError"
    ELSE exc.encrypt_in_text

\* The fault of a call that raised none.
NoFault == [type |-> "none", encrypt_in_text |-> FALSE, text |-> ""]

\* A call of op that raised fault (NoFault: it returned).
Call(op, fault) == [op |-> op, fault |-> fault]

\* The operations called so far.
Called == {calls[i].op : i \in 1..Len(calls)}

ProtectedPdf ==
    [error |-> "protected_pdf",
     message |-> <<"PDF is password-protected and cannot be processed.">>]

\* The raw page texts a document of the pipeline specification is made of:
\* an empty page, a page holding only a page number, a short page and pages
\* with enough text.
PageTexts ==
    {<< >>, <<"7">>, <<"A">>, <<"A", "A", "A">>, <<"A", ".", " ", "A", "A">>}

\* The texts the OCR engine recovers for a page.
OcrTexts == {<< >>, <<"B", "B", "B">>}

\* The input files: a missing file, a file that is not a PDF, and the PDFs of
\* at most MAX_PAGES + 1 pages.
Files ==
    {[exists |-> FALSE, is_pdf |-> TRUE, doc |-> << >>],
     [exists |-> TRUE, is_pdf |-> FALSE, doc |-> << >>]}
    \cup {[exists |-> TRUE, is_pdf |-> TRUE, doc |-> d] :
            d \in UNION {[1..n -> PageTexts] : n \in 0..(MAX_PAGES + 1)}}

(***************************************************************************)
(* PdfProcessor.process, stage by stage.                                   *)
(***************************************************************************)
\* Mutant of Fail: the error is recorded and the run goes on to cleaning.
Fail_ThenGoesOn(err) == pc' = "Cleaning" /\ result' = err

\* process returns the error value err.
Fail(err) == pc' = "Failed" /\ result' = err

\* _validate_file(filepath): the error dict, or NoResult for None.
ValidateFile(f) ==
    IF ~f.exists
    THEN [error |-> "file_not_found", message |-> <<"File not found:", Filename>>]
    ELSE IF ~f.is_pdf
    THEN [error |-> "invalid_format", message |-> <<"File is not a PDF.">>]
    ELSE NoResult

\* process, "Validate": error = self._validate_file(filepath)
Validate ==
    /\ pc = "Validating"
    /\ IF ValidateFile(file) # NoResult
       THEN Fail(ValidateFile(file))
       ELSE pc' = "PreCheck" /\ UNCHANGED result
    /\ UNCHANGED <<configVars, componentVars, validation, pages, ocr_info, chunkerVars, calls>>

\* validate_pdf(filepath) when the reader opens the file and reports n pages.
ValidationOk(n) == [page_count |-> n, file_size_mb |-> 0]

\* validate_pdf(filepath) when getsize or the reader raises exc.
ValidationError(exc) ==
    IF IsEncryptionError(exc) THEN ProtectedPdf
    ELSE [error |-> "validation_failed",
          message |-> <<"Failed to validate PDF:", exc.text>>]

\* Mutant of PreCheckVerdict: every error of validate_pdf is returned.
PreCheckVerdict_ReturnsAnyError(v) ==
    IF "error" \in DOMAIN v THEN v
    ELSE IF v.page_count > MAX_PAGES
    THEN [error |-> "document_too_large",
          message |-> <<"Document has", v.page_count, "pages. Maximum",
                        MAX_PAGES, "pages allowed.">>]
    ELSE NoResult

\* Mutant of PreCheckVerdict: a document of exactly MAX_PAGES pages is rejected.
PreCheckVerdict_OffByOne(v) ==
    IF "error" \in DOMAIN v
    THEN IF v.error = "protected_pdf" THEN v ELSE NoResult
    ELSE IF v.page_count >= MAX_PAGES
    THEN [error |-> "document_too_large",
          message |-> <<"Document has", v.page_count, "pages. Maximum",
                        MAX_PAGES, "pages allowed.">>]
    ELSE NoResult

\* What process does with the value of validate_pdf: the error it returns,
\* or NoResult when it goes on to extraction.
PreCheckVerdict(v) ==
    IF "error" \in DOMAIN v
    THEN IF v.error = "protected_pdf" THEN v ELSE NoResult
    ELSE IF v.page_count > MAX_PAGES
    THEN [error |-> "document_too_large",
          message |-> <<"Document has", v.page_count, "pages. Maximum",
                        MAX_PAGES, "pages allowed.">>]
    ELSE NoResult

\* process, "Quick page-count check before full extraction"
PreCheck ==
    /\ pc = "PreCheck"
    /\ \E e \in Faults \cup {NoFault} :
          LET v == IF e = NoFault THEN ValidationOk(Len(file.doc)) ELSE ValidationError(e)
          IN  /\ validation' = v
              /\ calls' = Append(calls, Call("validate_pdf", e))
              /\ IF PreCheckVerdict(v) # NoResult
                 THEN Fail(PreCheckVerdict(v))
                 ELSE pc' = "Extracting" /\ UNCHANGED result
    /\ UNCHANGED <<configVars, componentVars, pages, ocr_info, chunkerVars>>

\* The page dicts an extractor builds from the document.
ExtractedPages(doc) == [k \in 1..Len(doc) |-> [page_number |-> k, raw_text |-> doc[k]]]

\* Mutant of PrimaryFaultVerdict: no fault of the primary extractor falls
\* back to pypdf.
PrimaryFaultVerdict_NeverFallsBack(exc) == ProtectedPdf

\* Mutant of PrimaryFaultVerdict: every fault of the primary extractor falls
\* back to pypdf.
PrimaryFaultVerdict_AlwaysFallsBack(exc) == NoResult

\* What process does with the exception of the primary extractor: the error
\* it returns ("Check for password-protected before falling back"), or
\* NoResult when it falls back to pypdf.
PrimaryFaultVerdict(exc) ==
    IF IsEncryptionError(exc) THEN ProtectedPdf ELSE NoResult

\* process, "Extract": pages = self._extract_with_pdfplumber(filepath), and the
\* handler of its exception up to the fallback.
ExtractPrimary ==
    /\ pc = "Extracting"
    /\ \/ /\ calls' = Append(calls, Call("pdfplumber", NoFault))
          /\ pages' = ExtractedPages(file.doc)
          /\ pc' = "DetectingScan"
          /\ UNCHANGED result
       \/ \E e \in Faults :
             /\ calls' = Append(calls, Call("pdfplumber", e))
             /\ IF PrimaryFaultVerdict(e) # NoResult
                THEN Fail(PrimaryFaultVerdict(e))
                ELSE pc' = "Fallback" /\ UNCHANGED result
             /\ UNCHANGED pages
    /\ UNCHANGED <<configVars, componentVars, validation, ocr_info, chunkerVars>>

\* process, "Fallback to pypdf": pages = self._extract_with_pypdf(filepath)
ExtractFallback ==
    /\ pc = "Fallback"
    /\ \/ /\ calls' = Append(calls, Call("pypdf", NoFault))
          /\ pages' = ExtractedPages(file.doc)
          /\ pc' = "DetectingScan"
          /\ UNCHANGED result
       \/ \* reader.is_encrypted: PasswordProtectedError
          /\ calls' = Append(calls, Call("pypdf", PasswordProtectedError))
          /\ Fail(ProtectedPdf)
          /\ UNCHANGED pages
       \/ \E e \in Faults :
             /\ calls' = Append(calls, Call("pypdf", e))
             /\ Fail([error |-> "extraction_failed",
                      message |-> <<"Failed to extract text:", e.text>>])
             /\ UNCHANGED pages
    /\ UNCHANGED <<configVars, componentVars, validation, ocr_info, chunkerVars>>

\* len(p["raw_text"].strip()) < self.SCANNED_MIN_CHARS_PER_PAGE
IsSparse(p) == Len(Strip(p.raw_text)) < SCANNED_MIN_CHARS_PER_PAGE

\* The number of sparse pages of ps.
SparseCount(ps) == Cardinality({k \in 1..Len(ps) : IsSparse(ps[k])})

\* Mutant of DetectScanned: the ratio itself does not count as reached.
DetectScanned_RatioExclusive(ps) ==
    IF ps = << >> THEN FALSE
    ELSE SparseCount(ps) * SCANNED_PAGE_RATIO_DEN > Len(ps) * SCANNED_PAGE_RATIO_NUM

\* PdfProcessor._detect_scanned(pages)
DetectScanned(ps) ==
    IF ps = << >> THEN FALSE
    ELSE SparseCount(ps) * SCANNED_PAGE_RATIO_DEN >= Len(ps) * SCANNED_PAGE_RATIO_NUM

\* process, "Detect scanned/image PDF"
DetectScan ==
    /\ pc = "DetectingScan"
    /\ ocr_info' = NoOcr
    /\ pc' = IF DetectScanned(pages) THEN "OcrRecovering" ELSE "Cleaning"
    /\ UNCHANGED <<configVars, componentVars, validation, pages, chunkerVars, calls, result>>

\* sparse_page_nums of _attempt_ocr: the page numbers of the sparse pages, in
\* page order.
SparsePageNums(ps) ==
    LET sparse == SelectSeq(ps, IsSparse)
    IN  [k \in 1..Len(sparse) |-> sparse[k].page_number]

\* Mutant of OcrError: every OCR error is reported as ocr_failed.
OcrError_AlwaysOcrFailed(kind, message, ps) ==
    [error |-> "ocr_failed", message |-> message,
     metadata |-> [total_pages |-> Len(ps), filename |-> Filename]]

\* The error dicts of _attempt_ocr carry partial metadata.
OcrError(kind, message, ps) ==
    [error |-> kind, message |-> message,
     metadata |-> [total_pages |-> Len(ps), filename |-> Filename]]

\* Mutant of ReplaceRawText: every page takes a recovered text.
ReplaceRawText_EveryPage(ps, ocr_texts) ==
    [k \in 1..Len(ps) |->
        IF DOMAIN ocr_texts # {}
        THEN [ps[k] EXCEPT !.raw_text =
                 ocr_texts[CHOOSE n \in DOMAIN ocr_texts : TRUE]]
        ELSE ps[k]]

\* "Replace raw_text for OCR'd pages": ocr_texts maps page numbers to texts.
ReplaceRawText(ps, ocr_texts) ==
    [k \in 1..Len(ps) |->
        IF ps[k].page_number \in DOMAIN ocr_texts
        THEN [ps[k] EXCEPT !.raw_text = ocr_texts[ps[k].page_number]]
        ELSE ps[k]]

\* The dict _attempt_ocr returns on success: ocr_page_nums is
\* list(ocr_texts.keys()), skipped_pages the second component of the pair.
OcrSuccess(ocr_page_nums, skipped_pages) ==
    IF skipped_pages # << >>
    THEN [ocr_applied |-> TRUE, ocr_pages |-> ocr_page_nums,
          ocr_warning |-> <<"Only first", "MAX_OCR_PAGES", "pages OCR'd. Remaining",
                            Len(skipped_pages), "pages skipped.">>]
    ELSE [ocr_applied |-> TRUE, ocr_pages |-> ocr_page_nums]

\* What a call of engine.ocr_pages gave back: nothing (it raised), the pair
\* (ocr_texts, skipped_pages), or the dict alone.
NoReturn == [kind |-> "none"]
ReturnedPair(ocr_texts, skipped_pages) ==
    [kind |-> "pair", texts |-> ocr_texts, skipped |-> skipped_pages]
ReturnedDict(ocr_texts) == [kind |-> "dict", texts |-> ocr_texts]

\* The call engine.ocr_pages(filepath, page_numbers), the fault it raised
\* and the value it returned.
OcrCall(page_numbers, fault, returned) ==
    [op |-> "ocr_pages", fault |-> fault, page_numbers |-> page_numbers,
     returned |-> returned]

\* process, "attempt OCR on sparse pages": ocr_info = self._attempt_ocr(...)
\* The engine is either one that keeps the contract the caller unpacks
\* (ocr_pages returns the pair (texts, skipped_pages); the first k requested
\* pages are recognised, the others skipped) or the repository's OcrEngine,
\* whose ocr_pages returns the dict of all requested pages alone.
AttemptOcr ==
    /\ pc = "OcrRecovering"
    /\ \/ \* engine.check_availability() raises: nothing catches it
          /\ calls' = Append(calls, Call("check_availability", OcrFault))
          /\ pc' = "Raised"
          /\ UNCHANGED <<pages, ocr_info, result>>
       \/ \* available is false
          /\ calls' = Append(calls, Call("check_availability", NoFault))
          /\ Fail(OcrError("ocr_unavailable",
                           <<"PDF appears to be scanned/image-based and requires OCR, but OCR is not available:",
                             "reason">>, pages))
          /\ UNCHANGED <<pages, ocr_info>>
       \/ \* available, and no sparse page
          /\ SparsePageNums(pages) = << >>
          /\ calls' = Append(calls, Call("check_availability", NoFault))
          /\ ocr_info' = NoOcr
          /\ pc' = "Cleaning"
          /\ UNCHANGED <<pages, result>>
       \/ \* available, and engine.ocr_pages raises
          /\ SparsePageNums(pages) # << >>
          /\ calls' = calls \o <<Call("check_availability", NoFault),
                                 OcrCall(SparsePageNums(pages), OcrFault, NoReturn)>>
          /\ Fail(OcrError("ocr_failed", <<"OCR processing failed:", OcrFault.text>>, pages))
          /\ UNCHANGED <<pages, ocr_info>>
       \/ \* available, and engine.ocr_pages returns a pair
          /\ SparsePageNums(pages) # << >>
          /\ \E k \in 0..Len(SparsePageNums(pages)) :
                LET sparse_page_nums == SparsePageNums(pages)
                    ocr_page_nums == SubSeq(sparse_page_nums, 1, k)
                    skipped_pages == SubSeq(sparse_page_nums, k + 1, Len(sparse_page_nums))
                IN  \E ocr_texts \in [{ocr_page_nums[j] : j \in 1..k} -> OcrTexts] :
                       /\ calls' = calls \o
                             <<Call("check_availability", NoFault),
                               OcrCall(sparse_page_nums, NoFault,
                                       ReturnedPair(ocr_texts, skipped_pages))>>
                       /\ pages' = ReplaceRawText(pages, ocr_texts)
                       /\ ocr_info' = OcrSuccess(ocr_page_nums, skipped_pages)
          /\ pc' = "Cleaning"
          /\ UNCHANGED result
       \/ \* available, and engine.ocr_pages returns a dict (OcrEngine.ocr_pages):
          \* unpacking it into two names iterates its keys
          /\ SparsePageNums(pages) # << >>
          /\ calls' = calls \o
                <<Call("check_availability", NoFault),
                  OcrCall(SparsePageNums(pages), NoFault,
                          ReturnedDict([n \in {SparsePageNums(pages)[j] :
                                                 j \in 1..Len(SparsePageNums(pages))}
                                          |-> <<"B", "B", "B">>]))>>
          /\ IF Len(SparsePageNums(pages)) = 2
             THEN \* ocr_texts is a page number: ocr_texts.items() raises
                  \* AttributeError outside the try
                  pc' = "Raised" /\ UNCHANGED result
             ELSE \* ValueError inside the try
                  Fail(OcrError("ocr_failed",
                                <<"OCR processing failed:", "values to unpack">>, pages))
          /\ UNCHANGED <<pages, ocr_info>>
    /\ UNCHANGED <<configVars, componentVars, validation, chunkerVars>>

\* process, "Clean": page["cleaned_text"] = self._clean_text(page["raw_text"])
CleanedPages(ps) ==
    [k \in 1..Len(ps) |->
        [page_number |-> ps[k].page_number, raw_text |-> ps[k].raw_text,
         cleaned_text |-> CleanText(ps[k].raw_text)]]

Clean ==
    /\ pc = "Cleaning"
    /\ pages' = CleanedPages(pages)
    /\ pc' = "Chunking"
    /\ UNCHANGED <<configVars, componentVars, validation, ocr_info, chunkerVars, calls, result>>

(***************************************************************************)
(* PdfProcessor._chunk_pages, one loop iteration per step.                 *)
(***************************************************************************)
\* _chunk_pages up to the loop: the concatenation, and the returns for an
\* empty text and for a text that fits one chunk.
ChunkBegin ==
    /\ pc = "Chunking"
    /\ full_text' = FullText(pages)
    /\ page_boundaries' = PageBoundaries(pages)
    /\ pos' = 0
    /\ chunk_index' = 0
    /\ IF FullText(pages) = << >>
       THEN /\ chunks' = << >>
            /\ regions' = << >>
            /\ pc' = "Assembling"
       ELSE IF Len(FullText(pages)) <= MAX_CHUNK_SIZE
       THEN /\ chunks' = <<Chunk(0, FullText(pages),
                                 <<pages[1].page_number, pages[Len(pages)].page_number>>)>>
            /\ regions' = <<[start |-> 0, end |-> Len(FullText(pages)), emitted |-> TRUE]>>
            /\ pc' = "Assembling"
       ELSE /\ chunks' = << >>
            /\ regions' = << >>
            /\ pc' = "ChunkLoop"
    /\ UNCHANGED <<configVars, componentVars, validation, pages, ocr_info, calls, result>>

\* full_text[a:b].strip()
ChunkText(text, a, b) == Strip(Slice(text, a, b))

\* Mutant of NextChunkIndex: a region that trims to empty takes an index too.
NextChunkIndex_CountsSkipped(index, chunk_text) == index + 1

\* "if chunk_text: ... chunk_index += 1": the index after a region.
NextChunkIndex(index, chunk_text) == IF chunk_text # << >> THEN index + 1 ELSE index

\* One iteration of "while pos < len(full_text)" (or the loop's exit).
ChunkIterate ==
    /\ pc = "ChunkLoop"
    /\ IF pos >= Len(full_text)
       THEN /\ pc' = "Assembling"
            /\ UNCHANGED <<pos, chunk_index, chunks, regions>>
       ELSE LET end == pos + MAX_CHUNK_SIZE
            IN  IF end >= Len(full_text)
                THEN \* the remainder is the last chunk; break
                     LET chunk_text == ChunkText(full_text, pos, Len(full_text))
                     IN  /\ chunks' =
                               IF chunk_text # << >>
                               THEN Append(chunks,
                                      Chunk(chunk_index, chunk_text,
                                            FindSourcePages(pos, Len(full_text), page_boundaries)))
                               ELSE chunks
                         /\ regions' = Append(regions,
                               [start |-> pos, end |-> Len(full_text),
                                emitted |-> chunk_text # << >>])
                         /\ pc' = "Assembling"
                         /\ UNCHANGED <<pos, chunk_index>>
                ELSE LET break_point == FindBreakPoint(full_text, pos, end)
                         chunk_text == ChunkText(full_text, pos, break_point)
                     IN  /\ chunks' =
                               IF chunk_text # << >>
                               THEN Append(chunks,
                                      Chunk(chunk_index, chunk_text,
                                            FindSourcePages(pos, break_point, page_boundaries)))
                               ELSE chunks
                         /\ chunk_index' = NextChunkIndex(chunk_index, chunk_text)
                         /\ regions' = Append(regions,
                               [start |-> pos, end |-> break_point,
                                emitted |-> chunk_text # << >>])
                         /\ pos' = AdvancePos(pos, break_point, CHUNK_OVERLAP)
                         /\ pc' = "ChunkLoop"
    /\ UNCHANGED <<configVars, componentVars, validation, pages, ocr_info, full_text, page_boundaries,
                   calls, result>>

\* Mutant of Metadata: the OCR keys are copied whether or not OCR was applied.
Metadata_OcrKeysAlways(ps, cs, info) ==
    [total_pages |-> Len(ps), filename |-> Filename, is_chunked |-> Len(cs) > 1,
     ocr_applied |-> info.ocr_applied, ocr_pages |-> info.ocr_pages]

\* Mutant of Metadata: is_chunked is true as soon as there is a chunk.
Metadata_ChunkedWhenAny(ps, cs, info) ==
    IF info.ocr_applied
    THEN IF "ocr_warning" \in DOMAIN info
         THEN [total_pages |-> Len(ps), filename |-> Filename, is_chunked |-> Len(cs) >= 1,
               ocr_applied |-> TRUE, ocr_pages |-> info.ocr_pages,
               ocr_warning |-> info.ocr_warning]
         ELSE [total_pages |-> Len(ps), filename |-> Filename, is_chunked |-> Len(cs) >= 1,
               ocr_applied |-> TRUE, ocr_pages |-> info.ocr_pages]
    ELSE [total_pages |-> Len(ps), filename |-> Filename, is_chunked |-> Len(cs) >= 1]

\* The metadata dict of _build_result.
Metadata(ps, cs, info) ==
    IF info.ocr_applied
    THEN IF "ocr_warning" \in DOMAIN info
         THEN [total_pages |-> Len(ps), filename |-> Filename, is_chunked |-> Len(cs) > 1,
               ocr_applied |-> TRUE, ocr_pages |-> info.ocr_pages,
               ocr_warning |-> info.ocr_warning]
         ELSE [total_pages |-> Len(ps), filename |-> Filename, is_chunked |-> Len(cs) > 1,
               ocr_applied |-> TRUE, ocr_pages |-> info.ocr_pages]
    ELSE [total_pages |-> Len(ps), filename |-> Filename, is_chunked |-> Len(cs) > 1]

\* PdfProcessor._build_result(pages, chunks, filepath, ocr_info)
BuildResultValue(ps, cs, info) ==
    [pages |-> [k \in 1..Len(ps) |->
                  [page_number |-> ps[k].page_number, text |-> ps[k].cleaned_text]],
     chunks |-> cs,
     metadata |-> Metadata(ps, cs, info)]

\* process: return self._build_result(pages, chunks, filepath, ocr_info)
BuildResult ==
    /\ pc = "Assembling"
    /\ result' = BuildResultValue(pages, chunks, ocr_info)
    /\ pc' = "Done"
    /\ UNCHANGED <<configVars, componentVars, validation, pages, ocr_info, chunkerVars, calls>>

(***************************************************************************)
(* Specifications.                                                         *)
(***************************************************************************)
\* The pipeline: process(filepath) on every input file, with the default
\* configuration.
Init ==
    /\ InitComponents
    /\ file \in Files
    /\ pdfminer_importable \in BOOLEAN
    /\ MAX_CHUNK_SIZE = DEFAULT_MAX_CHUNK_SIZE
    /\ CHUNK_OVERLAP = DEFAULT_CHUNK_OVERLAP
    /\ pc = "Validating"
    /\ validation = NoValidation
    /\ pages = << >>
    /\ ocr_info = NoOcr
    /\ full_text = << >>
    /\ page_boundaries = << >>
    /\ pos = 0
    /\ chunk_index = 0
    /\ chunks = << >>
    /\ regions = << >>
    /\ calls = << >>
    /\ result = NoResult

Next ==
    \/ Validate
    \/ PreCheck
    \/ ExtractPrimary
    \/ ExtractFallback
    \/ DetectScan
    \/ AttemptOcr
    \/ Clean
    \/ ChunkBegin
    \/ ChunkIterate
    \/ BuildResult

Spec == Init /\ [][Next]_vars

\* The cleaned page texts of the chunker specification: what _clean_text
\* returns for the texts over a paragraph/sentence alphabet.
ChunkerPageTexts == {CleanText(t) : t \in Texts({"A", ".", "\n"}, MaxDocChars)}

\* The documents of n pages, each page a text of ts, of at most c characters
\* in all.
RECURSIVE DocsOf(_, _, _)
DocsOf(ts, n, c) ==
    IF n = 0 THEN {<< >>}
    ELSE UNION {{<<t>> \o d : d \in DocsOf(ts, n - 1, c - Len(t))} :
                  t \in {u \in ts : Len(u) <= c}}

\* The cleaned documents of the chunker specification: at most MaxDocPages
\* pages and MaxDocChars characters.
ChunkerDocs == UNION {DocsOf(ChunkerPageTexts, n, MaxDocChars) : n \in 0..MaxDocPages}

\* The chunker: _chunk_pages and _build_result on every list of cleaned pages
\* and every configuration within the bounds.
InitChunk ==
    /\ InitComponents
    /\ file = [exists |-> TRUE, is_pdf |-> TRUE, doc |-> << >>]
    /\ pdfminer_importable = TRUE
    /\ MAX_CHUNK_SIZE \in 1..MaxChunkSize
    /\ CHUNK_OVERLAP \in 0..MaxOverlap
    /\ pc = "Chunking"
    /\ validation = NoValidation
    /\ \E d \in ChunkerDocs :
          pages = [k \in 1..Len(d) |-> [page_number |-> k, cleaned_text |-> d[k]]]
    /\ ocr_info = NoOcr
    /\ full_text = << >>
    /\ page_boundaries = << >>
    /\ pos = 0
    /\ chunk_index = 0
    /\ chunks = << >>
    /\ regions = << >>
    /\ calls = << >>
    /\ result = NoResult

NextChunk ==
    \/ ChunkBegin
    \/ ChunkIterate
    \/ BuildResult

SpecChunk == InitChunk /\ [][NextChunk]_vars

(***************************************************************************)
(* Properties of the pipeline (specification Spec).                        *)
(***************************************************************************)
\* process has returned a value.
Returned == pc \in {"Done", "Failed"}

\* The error kinds of the output contract.
ErrorKinds ==
    {"file_not_found", "invalid_format", "protected_pdf", "document_too_large",
     "extraction_failed", "ocr_unavailable", "ocr_failed"}

\* C1: a value returned by process is either a success result (pages, chunks,
\* metadata) or an error value, never both: a value with the key "error" has
\* neither "pages" nor "chunks" and its kind is one of the seven kinds of the
\* contract (validation_failed is never returned); nothing is returned before
\* process ends.
C1_SuccessOrTypedError ==
    IF Returned
    THEN IF "error" \in DOMAIN result
         THEN /\ pc = "Failed"
              /\ "pages" \notin DOMAIN result
              /\ "chunks" \notin DOMAIN result
              /\ "message" \in DOMAIN result
              /\ result.error \in ErrorKinds
         ELSE /\ pc = "Done"
              /\ DOMAIN result = {"pages", "chunks", "metadata"}
    ELSE result = NoResult

\* Witness of C1: the pre-check ended with the internal kind validation_failed
\* and process has returned an error value.
C1_Witness ==
    /\ pc = "Failed"
    /\ "error" \in DOMAIN validation
    /\ validation.error = "validation_failed"
    /\ "error" \in DOMAIN result

\* C2: process never lets an exception escape: whatever the pre-check, the
\* extractors, the OCR availability check and the OCR call do, the run never
\* ends with an exception raised out of process.
C2_NoExceptionEscapes == pc # "Raised"

\* C8: every success result has metadata.total_pages <= MAX_PAGES.
C8_TotalPagesWithinMax ==
    pc = "Done" => result.metadata.total_pages <= MAX_PAGES

\* C9: when the page-count pre-check succeeds and reports more than MAX_PAGES
\* pages, process returns document_too_large, its message names the reported
\* count and MAX_PAGES, and neither extractor is called; a document reporting
\* at most MAX_PAGES pages is never rejected as too large.
C9_TooLargeRejectedBeforeExtraction ==
    /\ ("page_count" \in DOMAIN validation /\ validation.page_count > MAX_PAGES)
         => /\ pc = "Failed"
            /\ result.error = "document_too_large"
            /\ result.message[2] = validation.page_count
            /\ result.message[4] = MAX_PAGES
            /\ Called = {"validate_pdf"}
    /\ (pc = "Failed" /\ result.error = "document_too_large")
         => /\ "page_count" \in DOMAIN validation
            /\ validation.page_count > MAX_PAGES

\* Witness of C9: a document of MAX_PAGES + 1 pages has been rejected.
C9_Witness ==
    /\ pc = "Failed"
    /\ result.error = "document_too_large"
    /\ validation.page_count = MAX_PAGES + 1

\* The calls of op that raised a fault classified as an encryption error.
EncryptionFaults(op) ==
    {i \in 1..Len(calls) :
        /\ calls[i].op = op
        /\ calls[i].fault # NoFault
        /\ IsEncryptionError(calls[i].fault)}

\* C10: if the pre-check or the primary extractor raises a fault classified as
\* an encryption error, process returns protected_pdf and the fallback
\* extractor is not called in that run.
C10_EncryptionShortCircuits ==
    (EncryptionFaults("validate_pdf") \cup EncryptionFaults("pdfplumber") # {})
        => /\ pc = "Failed"
           /\ result = ProtectedPdf
           /\ "pypdf" \notin Called

\* Witness of C10: the primary extractor raised an encryption error and
\* process has returned.
C10_Witness ==
    /\ EncryptionFaults("pdfplumber") # {}
    /\ pc = "Failed"

(***************************************************************************)
(* Properties of the chunker (specification SpecChunk).                    *)
(***************************************************************************)
\* _chunk_pages has returned.
ChunkingDone == pc \in {"Assembling", "Done"}

\* The visited regions that gave a chunk, in order: EmittedRegions[j] is the
\* source region of chunks[j].
EmittedRegions == SelectSeq(regions, LAMBDA r : r.emitted)

\* C3: every chunk emitted by _chunk_pages (the single chunk, every
\* intermediate chunk, the final remainder) has char_count <= MAX_CHUNK_SIZE,
\* for every configuration with MAX_CHUNK_SIZE >= 1.
C3_ChunkSizeBound ==
    \A j \in 1..Len(chunks) :
        /\ chunks[j].char_count <= MAX_CHUNK_SIZE
        /\ Len(chunks[j].text) <= MAX_CHUNK_SIZE

\* Witness of C3: a document split into at least three chunks, one of them
\* of exactly MAX_CHUNK_SIZE characters.
C3_Witness ==
    /\ pc = "Done"
    /\ MAX_CHUNK_SIZE >= 2
    /\ Len(chunks) >= 3
    /\ \E j \in 1..Len(chunks) : chunks[j].char_count = MAX_CHUNK_SIZE

\* C4: when _chunk_pages has returned for a non-empty text, the regions it
\* visited start at offset 0, end at the length of the text, each starts at
\* or before the end of the one before it, and every non-whitespace character
\* of the text lies in the text of an emitted chunk (the chunk's text is a
\* part of its region that contains the character's offset).
C4_Coverage ==
    (ChunkingDone /\ full_text # << >>) =>
        /\ regions # << >>
        /\ regions[1].start = 0
        /\ regions[Len(regions)].end = Len(full_text)
        /\ \A k \in 1..(Len(regions) - 1) : regions[k + 1].start <= regions[k].end
        /\ Len(EmittedRegions) = Len(chunks)
        /\ \A i \in 0..(Len(full_text) - 1) :
              full_text[i + 1] \notin WS =>
                  \E j \in 1..Len(chunks) :
                      \E a \in EmittedRegions[j].start..EmittedRegions[j].end :
                          /\ a <= i
                          /\ i < a + Len(chunks[j].text)
                          /\ a + Len(chunks[j].text) <= EmittedRegions[j].end
                          /\ chunks[j].text = Slice(full_text, a, a + Len(chunks[j].text))

\* Witness of C4: a text split into at least three regions, one of which
\* trimmed to nothing and gave no chunk.
C4_Witness ==
    /\ pc = "Done"
    /\ Len(regions) >= 3
    /\ Len(chunks) >= 2
    /\ Len(chunks) < Len(regions)

\* C5 as claimed: for every pair of consecutive emitted chunks, the region of
\* the second starts CHUNK_OVERLAP characters before the end of the region of
\* the first, and the last CHUNK_OVERLAP characters of the first region are
\* the first CHUNK_OVERLAP characters of the second.
C5_OverlapEveryPair ==
    \A j \in 1..(Len(EmittedRegions) - 1) :
        LET a == EmittedRegions[j]
            b == EmittedRegions[j + 1]
        IN  /\ b.start = a.end - CHUNK_OVERLAP
            /\ a.end - a.start >= CHUNK_OVERLAP
            /\ Slice(full_text, a.end - CHUNK_OVERLAP, a.end)
                 = Slice(full_text, b.start, b.start + CHUNK_OVERLAP)

\* C5 amended: for every pair of consecutive visited regions, when the first
\* is longer than CHUNK_OVERLAP the second starts CHUNK_OVERLAP characters
\* before the end of the first, is at least CHUNK_OVERLAP long, and begins
\* with the last CHUNK_OVERLAP characters of the first; otherwise the second
\* starts where the first ends.
C5_OverlapUnlessDegenerate ==
    \A k \in 1..(Len(regions) - 1) :
        LET a == regions[k]
            b == regions[k + 1]
        IN  IF a.end - a.start > CHUNK_OVERLAP
            THEN /\ b.start = a.end - CHUNK_OVERLAP
                 /\ b.end - b.start >= CHUNK_OVERLAP
                 /\ Slice(full_text, a.end - CHUNK_OVERLAP, a.end)
                      = Slice(full_text, b.start, b.start + CHUNK_OVERLAP)
            ELSE b.start = a.end

\* Witness of C5: two consecutive chunks that overlap by CHUNK_OVERLAP >= 1
\* characters, in a run that also visited a region no longer than the overlap.
C5_Witness ==
    /\ pc = "Done"
    /\ CHUNK_OVERLAP >= 1
    /\ \E k \in 1..(Len(regions) - 1) :
          /\ regions[k].emitted /\ regions[k + 1].emitted
          /\ regions[k + 1].start = regions[k].end - CHUNK_OVERLAP
    /\ \E k \in 1..(Len(regions) - 1) :
          regions[k].end - regions[k].start <= CHUNK_OVERLAP

\* C6: every chunk has source_pages[0] <= source_pages[1], and along the
\* chunks both the first page and the last page never decrease.
C6_MonotonicPages ==
    /\ \A j \in 1..Len(chunks) : chunks[j].source_pages[1] <= chunks[j].source_pages[2]
    /\ \A j \in 1..(Len(chunks) - 1) :
          /\ chunks[j].source_pages[1] <= chunks[j + 1].source_pages[1]
          /\ chunks[j].source_pages[2] <= chunks[j + 1].source_pages[2]

\* Witness of C6: three chunks over three pages, the last chunk on a later
\* page than the first.
C6_Witness ==
    /\ pc = "Done"
    /\ Len(pages) = 3
    /\ Len(chunks) >= 3
    /\ chunks[1].source_pages[2] < chunks[Len(chunks)].source_pages[1]

\* C7 as claimed: for every pair of consecutive chunks, the last page of the
\* first is at most the first page of the second.
C7_LastPageBeforeNextFirst ==
    \A j \in 1..(Len(chunks) - 1) :
        chunks[j].source_pages[2] <= chunks[j + 1].source_pages[1]

\* C7 amended: for every pair of consecutive chunks, the last page of the
\* first is at most the first page of the second unless a page begins inside
\* the part of the text the two regions share (strictly after the start of the
\* second region and before the end of the first).
C7_LastPageBeforeNextFirstUnlessPageInOverlap ==
    \A j \in 1..(Len(chunks) - 1) :
        LET a == EmittedRegions[j]
            b == EmittedRegions[j + 1]
        IN  (\A k \in 1..Len(page_boundaries) :
                ~(b.start < page_boundaries[k].offset /\ page_boundaries[k].offset < a.end))
            => chunks[j].source_pages[2] <= chunks[j + 1].source_pages[1]

\* Witness of C7: two consecutive overlapping chunks on different pages with
\* no page beginning inside the overlap.
C7_Witness ==
    /\ pc = "Done"
    /\ CHUNK_OVERLAP >= 1
    /\ \E j \in 1..(Len(chunks) - 1) :
          /\ EmittedRegions[j + 1].start < EmittedRegions[j].end
          /\ \A k \in 1..Len(page_boundaries) :
                ~(EmittedRegions[j + 1].start < page_boundaries[k].offset
                  /\ page_boundaries[k].offset < EmittedRegions[j].end)
          /\ chunks[j].source_pages[1] < chunks[j + 1].source_pages[2]

(***************************************************************************)
(* Properties of the extraction fallback, the stage order and the OCR      *)
(* recovery (specification Spec).                                          *)
(***************************************************************************)
\* The positions in calls of the calls of op.
CallsOf(op) == {i \in 1..Len(calls) : calls[i].op = op}

\* The call raised a fault that is not classified as an encryption error.
RaisedNonEncryption(c) == c.fault # NoFault /\ ~IsEncryptionError(c.fault)

\* C11: the fallback extractor is called exactly when the primary extractor
\* raised a fault that is not an encryption error, and at most once; when it
\* returns, the run goes on with its pages; when it reports encryption the
\* run returns protected_pdf; any other fault returns extraction_failed with
\* the fault's text in the message; no call follows a failed fallback.
C11_FallbackExactlyOnNonEncryptionFault ==
    /\ Cardinality(CallsOf("pypdf")) <= 1
    /\ \A i \in CallsOf("pypdf") :
          /\ i > 1
          /\ calls[i - 1].op = "pdfplumber"
          /\ RaisedNonEncryption(calls[i - 1])
    /\ \A i \in CallsOf("pdfplumber") :
          RaisedNonEncryption(calls[i]) =>
              \/ pc = "Fallback" /\ i = Len(calls)
              \/ i < Len(calls) /\ calls[i + 1].op = "pypdf"
    /\ \A i \in CallsOf("pypdf") :
          IF calls[i].fault = NoFault
          THEN /\ pc \notin {"Validating", "PreCheck", "Extracting", "Fallback"}
               /\ Len(pages) = Len(file.doc)
               /\ \A k \in 1..Len(pages) : pages[k].page_number = k
               /\ pc = "DetectingScan" => pages = ExtractedPages(file.doc)
               /\ pc = "Failed" => result.error \in {"ocr_unavailable", "ocr_failed"}
          ELSE /\ pc = "Failed"
               /\ i = Len(calls)
               /\ IF calls[i].fault = PasswordProtectedError
                  THEN result = ProtectedPdf
                  ELSE /\ result.error = "extraction_failed"
                       /\ result.message = <<"Failed to extract text:", calls[i].fault.text>>

\* Witness of C11: the primary extractor raised a fault that is not an
\* encryption error and the fallback raised one too.
C11_Witness ==
    /\ pc = "Failed"
    /\ \E i \in CallsOf("pypdf") :
          /\ calls[i].fault \in Faults
          /\ RaisedNonEncryption(calls[i - 1])
    /\ result.error = "extraction_failed"

\* The stage of the pipeline a position of process belongs to: the pre-check
\* is part of Validating, the fallback of Extracting, the loop of
\* _chunk_pages and _build_result of Chunking.
Stage(p) ==
    CASE p \in {"Validating", "PreCheck"} -> "Validating"
      [] p \in {"Extracting", "Fallback"} -> "Extracting"
      [] p \in {"Chunking", "ChunkLoop", "Assembling"} -> "Chunking"
      [] OTHER -> p

\* The place of a stage in the fixed order.
StageRank(s) ==
    CASE s = "Validating" -> 1
      [] s = "Extracting" -> 2
      [] s = "DetectingScan" -> 3
      [] s = "OcrRecovering" -> 4
      [] s = "Cleaning" -> 5
      [] s = "Chunking" -> 6
      [] s = "Done" -> 7

\* A step of process from stage s to stage t keeps the order: it stays in s,
\* goes to the stage after s (from DetectingScan straight to Cleaning when
\* OcrRecovering is left out), or ends the run from a stage that can fail.
InStageOrder(s, t) ==
    \/ /\ t \in {"Failed", "Raised"}
       /\ s \in {"Validating", "Extracting", "OcrRecovering"}
    \/ /\ t \notin {"Failed", "Raised"}
       /\ \/ StageRank(t) = StageRank(s)
          \/ StageRank(t) = StageRank(s) + 1
          \/ s = "DetectingScan" /\ t = "Cleaning"

\* The positions of process.
PcValues ==
    {"Validating", "PreCheck", "Extracting", "Fallback", "DetectingScan",
     "OcrRecovering", "Cleaning", "Chunking", "ChunkLoop", "Assembling",
     "Done", "Failed", "Raised"}

\* A step of a call of process that has neither returned nor raised: it moves
\* to another position or, in the loop of _chunk_pages, to another pos. Every
\* step of Next is such a step, and one is possible in every position but
\* Done, Failed and Raised.
ProcessStep ==
    /\ pc \notin {"Done", "Failed", "Raised"}
    /\ pc' \in PcValues
    /\ pos' \in 0..Len(full_text)

\* process as it runs: a call of process goes on until it returns or raises.
SpecLive == Init /\ [][Next]_vars /\ WF_<<pc, pos>>(ProcessStep)

\* C12: every step of process keeps the stage order Validating, Extracting,
\* DetectingScan, (OcrRecovering), Cleaning, Chunking, Done; OcrRecovering is
\* entered only from DetectingScan with pages the detector classifies as
\* scanned; no step is taken once a value has been returned; and a run that
\* has reached Cleaning reaches Done.
C12_StagesInOrderAndCleaningReachesDone ==
    /\ [][/\ pc \notin {"Failed", "Raised", "Done"}
          /\ result = NoResult
          /\ InStageOrder(Stage(pc), Stage(pc'))
          /\ pc' = "OcrRecovering" => (pc = "DetectingScan" /\ DetectScanned(pages))
          /\ pc' = "Failed" <=> result' # NoResult /\ "error" \in DOMAIN result']_vars
    /\ (pc = "Cleaning") ~> (pc = "Done")

\* Witness of C12: a run that went through OcrRecovering, with a page the OCR
\* engine skipped, has reached Done.
C12_Witness ==
    /\ pc = "Done"
    /\ CallsOf("ocr_pages") # {}
    /\ "ocr_warning" \in DOMAIN ocr_info

(***************************************************************************)
(* The scanned-document detector on its own (specification SpecDetect).    *)
(***************************************************************************)
\* Detector specification: most pages in a list of extracted pages.
MaxDetectPages == 5

\* The raw page texts of the detector specification: empty, one character,
\* one character between whitespace, exactly SCANNED_MIN_CHARS_PER_PAGE
\* characters, the same after whitespace, and two characters around a space.
DetectTexts ==
    {<< >>, <<"A">>, <<" ", "A", "\n">>, <<"A", "A">>, <<" ", "A", "A">>,
     <<"A", " ", "A">>}

\* The detector: _detect_scanned, as process calls it, on every list of at
\* most MaxDetectPages extracted pages.
InitDetect ==
    /\ InitComponents
    /\ file = [exists |-> TRUE, is_pdf |-> TRUE, doc |-> << >>]
    /\ pdfminer_importable = TRUE
    /\ MAX_CHUNK_SIZE = DEFAULT_MAX_CHUNK_SIZE
    /\ CHUNK_OVERLAP = DEFAULT_CHUNK_OVERLAP
    /\ pc = "DetectingScan"
    /\ validation = NoValidation
    /\ \E d \in UNION {[1..n -> DetectTexts] : n \in 0..MaxDetectPages} :
          pages = ExtractedPages(d)
    /\ ocr_info = NoOcr
    /\ full_text = << >>
    /\ page_boundaries = << >>
    /\ pos = 0
    /\ chunk_index = 0
    /\ chunks = << >>
    /\ regions = << >>
    /\ calls = << >>
    /\ result = NoResult

NextDetect == DetectScan

SpecDetect == InitDetect /\ [][NextDetect]_vars

\* The pages whose raw text, trimmed, is shorter than
\* SCANNED_MIN_CHARS_PER_PAGE.
TrimmedShort ==
    {k \in 1..Len(pages) :
        Len(Strip(pages[k].raw_text)) < SCANNED_MIN_CHARS_PER_PAGE}

\* C13: when the detector has run, it has classified the pages as scanned
\* exactly when there is at least one page and the pages whose trimmed raw
\* text is shorter than SCANNED_MIN_CHARS_PER_PAGE are at least
\* SCANNED_PAGE_RATIO (4/5) of all pages, the ratio itself included; an empty
\* list of pages is not classified as scanned.
C13_ScannedIffSparseRatioReached ==
    (pc \in {"OcrRecovering", "Cleaning"}) =>
        /\ pc = "OcrRecovering" <=>
              /\ pages # << >>
              /\ Cardinality(TrimmedShort) * SCANNED_PAGE_RATIO_DEN
                   >= Len(pages) * SCANNED_PAGE_RATIO_NUM
        /\ pages = << >> => pc = "Cleaning"

\* Witness of C13: five pages, exactly four of them sparse, classified as
\* scanned.
C13_Witness ==
    /\ pc = "OcrRecovering"
    /\ Len(pages) = 5
    /\ Cardinality(TrimmedShort) = 4

(***************************************************************************)
(* Properties of the OCR recovery (specification Spec).                    *)
(***************************************************************************)
\* C14: when the detector has fired and check_availability reports that OCR
\* is not available, process returns ocr_unavailable with the reported reason
\* in the message and ocr_pages is not called; when ocr_pages raises, process
\* returns ocr_failed with the cause in the message; neither value holds
\* pages or chunks, and ocr_unavailable is returned in no other case.
C14_OcrErrorsClassified ==
    /\ (pc = "Failed" /\ calls # << >> /\ calls[Len(calls)].op = "check_availability")
          => /\ calls[Len(calls)].fault = NoFault
             /\ DetectScanned(pages)
             /\ result.error = "ocr_unavailable"
             /\ result.message[Len(result.message)] = "reason"
             /\ "ocr_pages" \notin Called
             /\ DOMAIN result = {"error", "message", "metadata"}
    /\ \A i \in CallsOf("ocr_pages") :
          /\ i > 1
          /\ calls[i - 1] = Call("check_availability", NoFault)
          /\ calls[i].fault # NoFault
               => /\ pc = "Failed"
                  /\ result.error = "ocr_failed"
                  /\ result.message[Len(result.message)] = calls[i].fault.text
                  /\ DOMAIN result = {"error", "message", "metadata"}
    /\ (pc = "Failed" /\ result.error = "ocr_unavailable")
          => calls[Len(calls)] = Call("check_availability", NoFault)
    /\ (pc = "Failed" /\ result.error = "ocr_failed") => CallsOf("ocr_pages") # {}

\* Witness of C14: ocr_pages raised on a document of two pages, one of them
\* with enough text, and process has returned ocr_failed.
C14_Witness ==
    /\ pc = "Failed"
    /\ result.error = "ocr_failed"
    /\ \E i \in CallsOf("ocr_pages") : calls[i].fault = OcrFault
    /\ Len(pages) >= 2

(***************************************************************************)
(* The OCR recovery on documents with sparse and sufficient pages          *)
(* (specification SpecOcr).                                                *)
(***************************************************************************)
\* OCR specification: most pages in a document.
MaxOcrDocPages == 5

\* The raw page texts of the OCR specification: an empty page, a sparse page
\* and a page with enough text.
OcrDocTexts == {<< >>, <<"A">>, <<"A", "A", "A">>}

\* process from the detector on, on every extracted document of at most
\* MaxOcrDocPages pages: file.doc keeps the texts as extracted.
InitOcr ==
    /\ InitComponents
    /\ \E d \in UNION {[1..n -> OcrDocTexts] : n \in 0..MaxOcrDocPages} :
          /\ file = [exists |-> TRUE, is_pdf |-> TRUE, doc |-> d]
          /\ pages = ExtractedPages(d)
    /\ pdfminer_importable = TRUE
    /\ MAX_CHUNK_SIZE = DEFAULT_MAX_CHUNK_SIZE
    /\ CHUNK_OVERLAP = DEFAULT_CHUNK_OVERLAP
    /\ pc = "DetectingScan"
    /\ validation = NoValidation
    /\ ocr_info = NoOcr
    /\ full_text = << >>
    /\ page_boundaries = << >>
    /\ pos = 0
    /\ chunk_index = 0
    /\ chunks = << >>
    /\ regions = << >>
    /\ calls = << >>
    /\ result = NoResult

NextOcr ==
    \/ DetectScan
    \/ AttemptOcr
    \/ Clean
    \/ ChunkBegin
    \/ ChunkIterate
    \/ BuildResult

SpecOcr == InitOcr /\ [][NextOcr]_vars

\* The numbers of the pages whose text, as extracted, is sparse.
TargetedPages ==
    {k \in 1..Len(file.doc) : Len(Strip(file.doc[k])) < SCANNED_MIN_CHARS_PER_PAGE}

\* The numbers held by a list of page numbers.
PageSet(nums) == {nums[j] : j \in 1..Len(nums)}

C16_RepositoryEngineRecovers ==
    \A i \in CallsOf("ocr_pages") :
        (calls[i].fault = NoFault /\ calls[i].returned.kind = "dict") =>
            /\ pc \notin {"Failed", "Raised"}
            /\ "ocr_applied" \in DOMAIN ocr_info /\ ocr_info.ocr_applied
            /\ \A k \in DOMAIN calls[i].returned.texts :
                  pages[k].raw_text = calls[i].returned.texts[k]
            /\ pc = "Done" => result.metadata.ocr_applied

(***************************************************************************)
(* Properties of the single-chunk case and of is_chunked (specification    *)
(* SpecChunk).                                                             *)
(***************************************************************************)
\* C17: when _chunk_pages has returned, an empty concatenated text gave no
\* chunk, and a non-empty one of at most MAX_CHUNK_SIZE characters gave
\* exactly one chunk, of index 0, whose text is the whole concatenated text
\* and whose source_pages are the first and the last page number; the result
\* then has is_chunked false.
C17_SingleChunkWhenTextFits ==
    ChunkingDone =>
        /\ full_text = << >> => chunks = << >>
        /\ (full_text # << >> /\ Len(full_text) <= MAX_CHUNK_SIZE) =>
              /\ Len(chunks) = 1
              /\ chunks[1].chunk_index = 0
              /\ chunks[1].text = full_text
              /\ chunks[1].char_count = Len(full_text)
              /\ chunks[1].source_pages =
                    <<pages[1].page_number, pages[Len(pages)].page_number>>
              /\ pc = "Done" => result.metadata.is_chunked = FALSE

\* Witness of C17: three pages whose concatenated text has exactly
\* MAX_CHUNK_SIZE characters and begins with whitespace, in one chunk.
C17_Witness ==
    /\ pc = "Done"
    /\ Len(pages) = 3
    /\ Len(full_text) = MAX_CHUNK_SIZE
    /\ full_text[1] \in WS
    /\ Len(chunks) = 1

\* C18 as claimed: whenever the concatenated text is longer than
\* MAX_CHUNK_SIZE, at least two chunks are emitted and the result has
\* is_chunked true; is_chunked is true only if more than one chunk was
\* emitted.
C18_LongTextGivesTwoChunks ==
    /\ (ChunkingDone /\ Len(full_text) > MAX_CHUNK_SIZE) =>
          /\ Len(chunks) >= 2
          /\ pc = "Done" => result.metadata.is_chunked
    /\ (pc = "Done" /\ result.metadata.is_chunked) => Len(chunks) > 1

\* C18 amended: whenever the concatenated text is longer than
\* MAX_CHUNK_SIZE, at least one chunk is emitted, and at least two when the
\* first visited region holds a character that is not whitespace, as it does
\* when the text does not begin with whitespace; is_chunked is true exactly
\* when more than one chunk was emitted.
C18_LongTextGivesTwoChunksUnlessFirstRegionBlank ==
    /\ (ChunkingDone /\ Len(full_text) > MAX_CHUNK_SIZE) =>
          /\ Len(chunks) >= 1
          /\ full_text[1] \notin WS => regions[1].emitted
          /\ regions[1].emitted => Len(chunks) >= 2
          /\ (pc = "Done" /\ regions[1].emitted) => result.metadata.is_chunked
    /\ pc = "Done" => (result.metadata.is_chunked <=> Len(chunks) > 1)

\* Witness of C18: a text longer than MAX_CHUNK_SIZE that begins with the
\* blank lines of an empty page and whose first region gave a chunk, in a
\* result with is_chunked true.
C18_Witness ==
    /\ pc = "Done"
    /\ Len(full_text) > MAX_CHUNK_SIZE
    /\ full_text[1] \in WS
    /\ regions[1].emitted
    /\ Len(chunks) >= 2
    /\ result.metadata.is_chunked

(***************************************************************************)
(* The cleaner on its own (specification SpecClean).                       *)
(***************************************************************************)
\* Cleaner specification: most pieces in a raw page text.
MaxCleanPieces == 4

\* The pieces raw page texts are made of: a digit, a dash, a line break, a
\* space, a letter, a form feed, and the words of a page number.
CleanPieces ==
    {<<"7">>, <<"-">>, <<"\n">>, <<" ">>, <<"A">>, <<"\f">>,
     <<"P", "a", "g", "e", " ">>, <<" ", "o", "f", " ">>}

\* The texts made of at most n pieces.
RECURSIVE PieceTexts(_)
PieceTexts(n) ==
    IF n = 0 THEN {<< >>}
    ELSE PieceTexts(n - 1) \cup {t \o p : t \in PieceTexts(n - 1), p \in CleanPieces}

\* The cleaner: the cleaning loop of process on a page with every raw text of
\* at most MaxCleanPieces pieces.
InitClean ==
    /\ InitComponents
    /\ \E t \in PieceTexts(MaxCleanPieces) :
          /\ file = [exists |-> TRUE, is_pdf |-> TRUE, doc |-> <<t>>]
          /\ pages = ExtractedPages(<<t>>)
    /\ pdfminer_importable = TRUE
    /\ MAX_CHUNK_SIZE = DEFAULT_MAX_CHUNK_SIZE
    /\ CHUNK_OVERLAP = DEFAULT_CHUNK_OVERLAP
    /\ pc = "Cleaning"
    /\ validation = NoValidation
    /\ ocr_info = NoOcr
    /\ full_text = << >>
    /\ page_boundaries = << >>
    /\ pos = 0
    /\ chunk_index = 0
    /\ chunks = << >>
    /\ regions = << >>
    /\ calls = << >>
    /\ result = NoResult

NextClean == Clean

SpecClean == InitClean /\ [][NextClean]_vars

\* The pages have been cleaned.
Cleaned == pc = "Chunking"

\* C19 as claimed: cleaning a cleaned text gives the same text:
\* _clean_text(_clean_text(x)) = _clean_text(x) for every raw text x.
C19_CleaningIdempotent ==
    Cleaned =>
        \A k \in 1..Len(pages) :
            CleanText(pages[k].cleaned_text) = pages[k].cleaned_text

\* s.split("\n"): the lines of a text.
RECURSIVE SplitLines(_)
SplitLines(s) ==
    LET breaks == {i \in 1..Len(s) : s[i] = "\n"}
    IN  IF breaks = {} THEN <<s>>
        ELSE LET i == CHOOSE b \in breaks : \A c \in breaks : b <= c
             IN  <<SubSeq(s, 1, i - 1)>> \o SplitLines(SubSeq(s, i + 1, Len(s)))

\* The line holds a character that is not whitespace.
NotBlank(line) == \E i \in 1..Len(line) : line[i] \notin WS

\* The line, taken alone, is a page number in the form of the second
\* cleaning pattern: the pattern matches it from its start to its end.
IsPageNumberLine(line) == Ends(PageNumberPattern, line, 0) # << >>

\* What the page-number pattern alone makes of a text.
PageNumbersRemoved(text) == Sub(PageNumberPattern, << >>, text)

\* C20 as claimed: page-number removal is whole-line only: the lines holding
\* something other than whitespace that the page-number pattern leaves are
\* the lines of the raw text that hold something other than whitespace and
\* are not a page number alone on their line, unchanged and in order; so a
\* number inside a sentence and the lines next to a removed page-number line
\* are kept.
C20_PageNumbersRemovedWholeLineOnly ==
    Cleaned =>
        \A k \in 1..Len(pages) :
            SelectSeq(SplitLines(PageNumbersRemoved(pages[k].raw_text)), NotBlank)
                = SelectSeq(SplitLines(pages[k].raw_text),
                            LAMBDA line : NotBlank(line) /\ ~IsPageNumberLine(line))

(***************************************************************************)
(* The reader handles of process: validate_pdf and                         *)
(* _extract_with_pdfplumber, one step per open, page and close.            *)
(***************************************************************************)
\* PdfProcessor.BATCH_SIZE, scaled from 50.
BATCH_SIZE == 2

\* The page texts of the documents whose extraction is followed step by step.
BatchPageTexts == {<< >>, <<"A", "A", "A">>}

\* The largest such document: two full batches.
MaxBatchDocPages == 4

Min(a, b) == IF a <= b THEN a ELSE b

\* The number of batches range(0, n, BATCH_SIZE) yields.
Ceil(n, b) == (n + b - 1) \div b

\* Mutant of ReaderClosed: leaving the with block keeps the handle open.
ReaderClosed_LeavesOpen(n) == n

\* The handles open after a with block of pdfplumber.open is left, by its
\* end or by an exception.
ReaderClosed(n) == n - 1

\* pdfplumber.open(filepath) returned a reader, opened for the given reason.
ReaderOpened(why) ==
    /\ open_readers' = open_readers + 1
    /\ calls' = Append(calls, [op |-> "pdfplumber.open", fault |-> NoFault, why |-> why])

\* What process does when validate_pdf returned v.
AfterPreCheck(v) ==
    /\ validation' = v
    /\ IF PreCheckVerdict(v) # NoResult
       THEN Fail(PreCheckVerdict(v))
       ELSE pc' = "Extracting" /\ UNCHANGED result

\* What process does when _extract_with_pdfplumber raised e.
AfterPrimaryFault(e) ==
    /\ calls' = Append(calls, Call("pdfplumber", e))
    /\ pages' = << >>
    /\ IF PrimaryFaultVerdict(e) # NoResult
       THEN Fail(PrimaryFaultVerdict(e))
       ELSE pc' = "Fallback" /\ UNCHANGED result

\* validate_pdf: os.path.getsize and pdfplumber.open
PreCheckOpen ==
    /\ pc = "PreCheck"
    /\ \/ \E e \in Faults :
             /\ calls' = Append(calls, Call("validate_pdf", e))
             /\ AfterPreCheck(ValidationError(e))
             /\ UNCHANGED open_readers
       \/ /\ ReaderOpened("validate_pdf")
          /\ pc' = "PreCheckReading"
          /\ UNCHANGED <<validation, result>>
    /\ UNCHANGED <<configVars, limiterVars, summarizerVars, pages, ocr_info, chunkerVars, total_pages, batch_start,
                   batch_end, page_index>>

\* validate_pdf: page_count = len(pdf.pages), and the end of the with block
PreCheckClose ==
    /\ pc = "PreCheckReading"
    /\ open_readers' = ReaderClosed(open_readers)
    /\ \E e \in Faults \cup {NoFault} :
          /\ calls' = Append(calls, Call("validate_pdf", e))
          /\ AfterPreCheck(IF e = NoFault THEN ValidationOk(Len(file.doc))
                           ELSE ValidationError(e))
    /\ UNCHANGED <<configVars, limiterVars, summarizerVars, pages, ocr_info, chunkerVars, total_pages, batch_start,
                   batch_end, page_index>>

\* _extract_with_pdfplumber, "First pass": pdfplumber.open
CountOpen ==
    /\ pc = "Extracting"
    /\ \/ \E e \in Faults : AfterPrimaryFault(e) /\ UNCHANGED open_readers
       \/ /\ ReaderOpened("page_count")
          /\ pc' = "CountingPages"
          /\ UNCHANGED <<pages, result>>
    /\ UNCHANGED <<configVars, limiterVars, summarizerVars, validation, ocr_info, chunkerVars, total_pages,
                   batch_start, batch_end, page_index>>

\* _extract_with_pdfplumber, "First pass": total_pages = len(pdf.pages), the
\* end of the with block, and the start of the batch loop
CountClose ==
    /\ pc = "CountingPages"
    /\ open_readers' = ReaderClosed(open_readers)
    /\ \/ \E e \in Faults : AfterPrimaryFault(e) /\ UNCHANGED <<total_pages, batch_start>>
       \/ /\ total_pages' = Len(file.doc)
          /\ batch_start' = 0
          /\ pages' = << >>
          /\ pc' = "BatchLoop"
          /\ UNCHANGED <<calls, result>>
    /\ UNCHANGED <<configVars, limiterVars, summarizerVars, validation, ocr_info, chunkerVars, batch_end, page_index>>

\* _extract_with_pdfplumber: the head of the batch loop, pdfplumber.open of
\* the batch, and the return when range(0, total_pages, BATCH_SIZE) is used up
BatchOpen ==
    /\ pc = "BatchLoop"
    /\ IF batch_start < total_pages
       THEN \/ \E e \in Faults :
                  AfterPrimaryFault(e) /\ UNCHANGED <<open_readers, batch_end, page_index>>
            \/ /\ batch_end' = Min(batch_start + BATCH_SIZE, total_pages)
               /\ ReaderOpened("batch")
               /\ page_index' = batch_start
               /\ pc' = "InBatch"
               /\ UNCHANGED <<pages, result>>
       ELSE /\ calls' = Append(calls, Call("pdfplumber", NoFault))
            /\ pc' = "DetectingScan"
            /\ UNCHANGED <<pages, result, open_readers, batch_end, page_index>>
    /\ UNCHANGED <<configVars, limiterVars, summarizerVars, validation, ocr_info, chunkerVars, total_pages, batch_start>>

\* _extract_with_pdfplumber: one turn of "for i in range(batch_start, batch_end)"
ExtractPage ==
    /\ pc = "InBatch"
    /\ page_index < batch_end
    /\ \/ \E e \in Faults :
             /\ AfterPrimaryFault(e)
             /\ open_readers' = ReaderClosed(open_readers)
             /\ UNCHANGED page_index
       \/ /\ pages' = Append(pages, [page_number |-> page_index + 1,
                                     raw_text |-> file.doc[page_index + 1]])
          /\ page_index' = page_index + 1
          /\ UNCHANGED <<pc, result, calls, open_readers>>
    /\ UNCHANGED <<configVars, limiterVars, summarizerVars, validation, ocr_info, chunkerVars, total_pages,
                   batch_start, batch_end>>

\* _extract_with_pdfplumber: the end of the with block of a batch, and the
\* step of range(0, total_pages, BATCH_SIZE)
BatchClose ==
    /\ pc = "InBatch"
    /\ page_index = batch_end
    /\ open_readers' = ReaderClosed(open_readers)
    /\ batch_start' = batch_start + BATCH_SIZE
    /\ pc' = "BatchLoop"
    /\ UNCHANGED <<configVars, limiterVars, summarizerVars, validation, pages, ocr_info, chunkerVars, calls, result,
                   total_pages, batch_end, page_index>>

\* process(filepath) on the documents of at most MaxBatchDocPages pages, the
\* readers followed handle by handle.
InitBatch ==
    /\ InitComponents
    /\ file \in {[exists |-> TRUE, is_pdf |-> TRUE, doc |-> d] :
                    d \in UNION {[1..n -> BatchPageTexts] : n \in 0..MaxBatchDocPages}}
    /\ pdfminer_importable \in BOOLEAN
    /\ MAX_CHUNK_SIZE = DEFAULT_MAX_CHUNK_SIZE
    /\ CHUNK_OVERLAP = DEFAULT_CHUNK_OVERLAP
    /\ pc = "Validating"
    /\ validation = NoValidation
    /\ pages = << >>
    /\ ocr_info = NoOcr
    /\ full_text = << >>
    /\ page_boundaries = << >>
    /\ pos = 0
    /\ chunk_index = 0
    /\ chunks = << >>
    /\ regions = << >>
    /\ calls = << >>
    /\ result = NoResult

NextBatch ==
    \/ Validate
    \/ PreCheckOpen
    \/ PreCheckClose
    \/ CountOpen
    \/ CountClose
    \/ BatchOpen
    \/ ExtractPage
    \/ BatchClose
    \/ ExtractFallback
    \/ DetectScan
    \/ AttemptOcr
    \/ Clean
    \/ ChunkBegin
    \/ ChunkIterate
    \/ BuildResult

SpecBatch == InitBatch /\ [][NextBatch]_vars

\* The readers opened so far for the batches of the extraction.
BatchOpens == {k \in CallsOf("pdfplumber.open") : calls[k].why = "batch"}

\* The primary extractor returned its pages.
PrimaryReturned == \E k \in CallsOf("pdfplumber") : calls[k].fault = NoFault

\* C21: batched primary extraction of an n-page document takes the page
\* indices 0..n-1 once each and in order, in ceil(n / BATCH_SIZE) batches,
\* each with a reader of its own; never more than one reader handle is open,
\* and every handle opened is closed when process returns.
C21_BatchesSequentialOneReaderAtATime ==
    /\ open_readers \in {0, 1}
    /\ pc \in {"Done", "Failed", "Raised"} => open_readers = 0
    /\ pc \in {"BatchLoop", "InBatch"} =>
          /\ pages = ExtractedPages(SubSeq(file.doc, 1, Len(pages)))
          /\ IF pc = "InBatch"
             THEN /\ open_readers = 1
                  /\ Len(pages) = page_index
                  /\ batch_start <= page_index /\ page_index <= batch_end
                  /\ Cardinality(BatchOpens) = Ceil(batch_start, BATCH_SIZE) + 1
             ELSE /\ open_readers = 0
                  /\ Len(pages) = Min(batch_start, total_pages)
                  /\ Cardinality(BatchOpens) = Ceil(Len(pages), BATCH_SIZE)
    /\ PrimaryReturned =>
          /\ Len(pages) = Len(file.doc)
          /\ \A k \in 1..Len(pages) : pages[k].page_number = k
          /\ pc = "DetectingScan" => pages = ExtractedPages(file.doc)
          /\ Cardinality(BatchOpens) = Ceil(Len(file.doc), BATCH_SIZE)

C21_Witness ==
    /\ pc = "Done"
    /\ PrimaryReturned
    /\ Len(file.doc) = 2 * BATCH_SIZE
    /\ Cardinality(BatchOpens) = 2
    /\ Cardinality(CallsOf("pdfplumber.open")) = 4

(***************************************************************************)
(* RateLimiter.  time.time() is read in ticks of 1 / TICKS_PER_SECOND      *)
(* seconds, so that int() in retry_after has fractions to cut off.         *)
(***************************************************************************)
TICKS_PER_SECOND == 2

\* The last reading of the clock that is followed, in ticks.
MaxClock == 6

\* The largest max_requests and window_seconds a limiter is built with.
MaxRequests == 2
MaxWindowSeconds == 2

\* self.window_seconds in ticks.
WindowTicks == window_seconds * TICKS_PER_SECOND

\* [ts for ts in self._requests[key] if ts > cutoff]
Active(timestamps, cutoff) == SelectSeq(timestamps, LAMBDA ts : ts > cutoff)

\* Mutant of Limited: one request more than max_requests fits the window.
Limited_OneMore(active) == Len(active) > max_requests

\* len(self._requests[key]) >= self.max_requests
Limited(active) == Len(active) >= max_requests

\* Mutant of Recorded: a denied request is recorded as well.
Recorded_EvenWhenDenied(active, allowed, at) == Append(active, at)

\* self._requests[key] after is_allowed: the timestamp is appended only when
\* the request is allowed.
Recorded(active, allowed, at) == IF allowed THEN Append(active, at) ELSE active

\* int(x) for x given in ticks: the whole seconds, cut off towards zero.
IntSeconds(x) ==
    IF x >= 0 THEN x \div TICKS_PER_SECOND ELSE 0 - ((0 - x) \div TICKS_PER_SECOND)

\* min(active)
Oldest(active) == CHOOSE ts \in {active[k] : k \in 1..Len(active)} :
                     \A k \in 1..Len(active) : ts <= active[k]

\* The value of retry_after(key) at the clock reading at.
RetryAfterValue(timestamps, at) ==
    LET active == Active(timestamps, at - WindowTicks)
    IN  IF Len(active) < max_requests THEN RetNone
        ELSE IF active = << >> THEN RetValueError
        ELSE RetInt(IntSeconds(Oldest(active) + WindowTicks - at) + 1)

\* The value of remaining(key) at the clock reading at.
RemainingValue(timestamps, at) ==
    Max(0, max_requests - Len(Active(timestamps, at - WindowTicks)))

\* process is not running: the state of Init for a file that is not there.
PipelineIdle ==
    /\ file = [exists |-> FALSE, is_pdf |-> TRUE, doc |-> << >>]
    /\ pdfminer_importable = TRUE
    /\ MAX_CHUNK_SIZE = DEFAULT_MAX_CHUNK_SIZE
    /\ CHUNK_OVERLAP = DEFAULT_CHUNK_OVERLAP
    /\ pc = "Validating"
    /\ validation = NoValidation
    /\ pages = << >>
    /\ ocr_info = NoOcr
    /\ full_text = << >>
    /\ page_boundaries = << >>
    /\ pos = 0
    /\ chunk_index = 0
    /\ chunks = << >>
    /\ regions = << >>
    /\ calls = << >>
    /\ result = NoResult

\* time.time() moves on between two calls.
Tick ==
    /\ now < MaxClock
    /\ now' = now + 1
    /\ allowed_at' = [key \in Keys |-> Active(allowed_at[key], now' - WindowTicks)]
    /\ UNCHANGED <<max_requests, window_seconds, requests, last_call>>
    /\ UNCHANGED <<pipelineVars, readerVars, summarizerVars>>

\* RateLimiter.is_allowed(key)
IsAllowed(key) ==
    LET active == Active(requests[key], now - WindowTicks)
        allowed == ~Limited(active)
    IN  /\ requests' = [requests EXCEPT ![key] = Recorded(active, allowed, now)]
        /\ allowed_at' = IF allowed
                         THEN [allowed_at EXCEPT ![key] = Append(@, now)]
                         ELSE allowed_at
        /\ last_call' = [op |-> "is_allowed", key |-> key,
                         returned |-> RetBool(allowed)]
        /\ UNCHANGED <<max_requests, window_seconds, now>>
        /\ UNCHANGED <<pipelineVars, readerVars, summarizerVars>>

\* RateLimiter.remaining(key)
Remaining(key) ==
    /\ requests' = [requests EXCEPT ![key] = Active(@, now - WindowTicks)]
    /\ last_call' = [op |-> "remaining", key |-> key,
                     returned |-> RetInt(RemainingValue(requests[key], now))]
    /\ UNCHANGED <<max_requests, window_seconds, now, allowed_at>>
    /\ UNCHANGED <<pipelineVars, readerVars, summarizerVars>>

\* RateLimiter.retry_after(key)
RetryAfter(key) ==
    /\ last_call' = [op |-> "retry_after", key |-> key,
                     returned |-> RetryAfterValue(requests[key], now)]
    /\ UNCHANGED <<max_requests, window_seconds, now, allowed_at, requests>>
    /\ UNCHANGED <<pipelineVars, readerVars, summarizerVars>>

\* A limiter of every size up to MaxRequests and MaxWindowSeconds, called
\* under the keys in any order while the clock moves on; no document is in
\* process.
InitLimiterSpec ==
    /\ max_requests \in 0..MaxRequests
    /\ window_seconds \in 1..MaxWindowSeconds
    /\ LimiterConstructed
    /\ InitReaders
    /\ InitSummarizer
    /\ PipelineIdle

NextLimiter ==
    \/ Tick
    \/ \E key \in Keys : IsAllowed(key)
    \/ \E key \in Keys : Remaining(key)
    \/ \E key \in Keys : RetryAfter(key)

SpecLimiter == InitLimiterSpec /\ [][NextLimiter]_vars

\* C22: for every key and every time t, at most max_requests calls of
\* is_allowed(key) returned True at times in (t - window_seconds, t]; and
\* is_allowed(key) returns True exactly when fewer than max_requests allowed
\* requests of that key, whatever the other keys did, lie in the window of
\* the call.
C22_SlidingWindowBound ==
    /\ [](\A key \in Keys :
            /\ Len(allowed_at[key]) <= max_requests
            /\ \A k \in 1..Len(allowed_at[key]) :
                  allowed_at[key][k] > now - WindowTicks /\ allowed_at[key][k] <= now)
    /\ [][\A key \in Keys :
            IsAllowed(key) =>
               last_call'.returned = RetBool(Len(allowed_at[key]) < max_requests)]_vars

C22_Witness ==
    /\ max_requests = 2
    /\ last_call = [op |-> "is_allowed", key |-> "key1", returned |-> RetBool(FALSE)]
    /\ Len(allowed_at["key1"]) = 2
    /\ Len(allowed_at["key2"]) = 1
    /\ now >= WindowTicks
    /\ \E k \in 1..2 : allowed_at["key1"][k] >= WindowTicks

\* The readings from now on at which is_allowed would let a key with these
\* timestamps through.
AllowedTimes(timestamps) ==
    {t \in now..(MaxClock + WindowTicks) : ~Limited(Active(timestamps, t - WindowTicks))}

\* The step records no request: for every key the timestamps in the window,
\* the value of remaining and the times the key is allowed at are, now and
\* at every later reading, what they were before the step.
NoSlotConsumed ==
    /\ allowed_at' = allowed_at
    /\ \A key \in Keys :
          /\ AllowedTimes(requests'[key]) = AllowedTimes(requests[key])
          /\ \A t \in now..(MaxClock + WindowTicks) :
                /\ Active(requests'[key], t - WindowTicks)
                      = Active(requests[key], t - WindowTicks)
                /\ RemainingValue(requests'[key], t) = RemainingValue(requests[key], t)

\* C23: a denied request does not consume a slot: an is_allowed(key) call
\* that returns False records no timestamp, so the timestamps in the window
\* of every key, the value of remaining(key) and the time at which key is
\* next allowed are as if the call had not been made; remaining(key) and
\* retry_after(key) record no request either.
C23_DeniedRequestConsumesNoSlot ==
    [][\A key \in Keys :
          /\ (IsAllowed(key) /\ last_call'.returned = RetBool(FALSE)) => NoSlotConsumed
          /\ Remaining(key) => NoSlotConsumed
          /\ RetryAfter(key) => NoSlotConsumed]_vars

C23_Witness ==
    /\ max_requests = 2
    /\ last_call = [op |-> "is_allowed", key |-> "key1", returned |-> RetBool(FALSE)]
    /\ Len(requests["key1"]) = 2
    /\ Len(requests["key2"]) = 1
    /\ RemainingValue(requests["key1"], now) = 0
    /\ RemainingValue(requests["key2"], now) = 1

\* The last call was is_allowed(key), and it returned False.
JustDenied(key) ==
    last_call = [op |-> "is_allowed", key |-> key, returned |-> RetBool(FALSE)]

\* C29: with max_requests >= 1, once is_allowed(key) has returned False, a
\* retry_after(key) that follows it at the same or any later clock reading
\* returns a positive integer and never None; and retry_after(key) returns
\* None exactly when fewer than max_requests requests of key are in the
\* current window.
C29_RetryAfterNumericAfterDenial ==
    [][\A key \in Keys :
          RetryAfter(key) =>
             /\ (max_requests >= 1 /\ JustDenied(key)) =>
                   last_call'.returned.kind = "int" /\ last_call'.returned.val > 0
             /\ last_call'.returned = RetNone
                   <=> Len(Active(requests[key], now - WindowTicks)) < max_requests]_vars

(***************************************************************************)
(* _chunk_pages run to its end: process is one thread, and a step that     *)
(* can be taken is taken.                                                  *)
(***************************************************************************)
SpecChunkLive == InitChunk /\ [][NextChunk]_vars /\ WF_<<pc, pos>>(ProcessStep)

\* The region the chunking loop visited last.
LastRegion(rs) == rs[Len(rs)]

\* C24: the chunking loop terminates for every text, every MAX_CHUNK_SIZE >= 1
\* and every CHUNK_OVERLAP >= 0: the break point is past the current start
\* and at most start + MAX_CHUNK_SIZE, and the start grows in every
\* iteration, to break_point - CHUNK_OVERLAP, or to break_point when that
\* would not advance.
C24_ChunkingLoopTerminates ==
    /\ [][(pc = "ChunkLoop" /\ pc' = "ChunkLoop") =>
             LET break_point == LastRegion(regions').end
             IN  /\ Len(regions') = Len(regions) + 1
                 /\ LastRegion(regions').start = pos
                 /\ break_point > pos
                 /\ break_point <= pos + MAX_CHUNK_SIZE
                 /\ pos' > pos
                 /\ pos' = IF break_point - CHUNK_OVERLAP > pos
                           THEN break_point - CHUNK_OVERLAP
                           ELSE break_point]_vars
    /\ (pc = "Chunking") ~> (pc = "Done")

C24_Witness ==
    /\ pc = "Done"
    /\ MAX_CHUNK_SIZE = 1
    /\ CHUNK_OVERLAP = MaxOverlap
    /\ Len(regions) >= 3
    /\ \E k \in 1..(Len(regions) - 1) : regions[k + 1].start = regions[k].end

\* The calls of engine.ocr_pages that returned the pair (texts, skipped).
OcrReturns ==
    {k \in CallsOf("ocr_pages") : calls[k].fault = NoFault /\ calls[k].returned.kind = "pair"}

\* The keys of the metadata that tell of OCR.
OcrKeys == {"ocr_applied", "ocr_pages", "ocr_warning"}

\* C25: OCR metadata is present exactly when OCR was applied: the metadata of
\* a success result holds ocr_applied (always true) and ocr_pages if and
\* only if the OcrRecovering stage ran and succeeded in that run; when the
\* detector did not fire it holds none of ocr_applied, ocr_pages,
\* ocr_warning; and ocr_warning is there only if the OCR call reported
\* skipped pages.
C25_OcrMetadataIffOcrApplied ==
    pc = "Done" =>
       LET metadata == result.metadata
       IN  /\ "ocr_applied" \in DOMAIN metadata <=> OcrReturns # {}
           /\ "ocr_pages" \in DOMAIN metadata <=> OcrReturns # {}
           /\ "ocr_applied" \in DOMAIN metadata => metadata.ocr_applied = TRUE
           /\ OcrReturns # {} =>
                 \A k \in OcrReturns :
                    metadata.ocr_pages =
                       SelectSeq(calls[k].page_numbers,
                                 LAMBDA n : n \in DOMAIN calls[k].returned.texts)
           /\ "check_availability" \notin Called => DOMAIN metadata \cap OcrKeys = {}
           /\ "ocr_warning" \in DOMAIN metadata =>
                 \E k \in OcrReturns : calls[k].returned.skipped # << >>

C25_Witness ==
    /\ pc = "Done"
    /\ OcrReturns # {}
    /\ "ocr_warning" \in DOMAIN result.metadata
    /\ Len(result.metadata.ocr_pages) = 2
    /\ Len(pages) = 5

(***************************************************************************)
(* Summarizer.summarize on the value process returned, one step per        *)
(* request to the model.                                                   *)
(***************************************************************************)
\* The cleaned page texts of the documents handed on to the summarizer.
SummaryPageTexts == {<< >>, <<"A">>, <<"A", "A", "A">>, <<"A", ".", " ", "A">>}

\* Most pages in such a document.
MaxSummaryDocPages == 2

\* What client.messages.create does: it raises one of the exceptions
\* _call_api catches, or it returns a text.
ApiFaults == {"AuthenticationError", "RateLimitError", "APIError", "Exception"}

\* The texts the model answers with: a summary with every required field,
\* one that carries an "error" field as well, a text that is no JSON, a JSON
\* object that lacks fields, and a JSON value that is no object.
ReplyTexts == {"summary", "summary_with_error", "not_json", "missing_fields", "json_list"}

Replies == ApiFaults \cup ReplyTexts

\* A parsed summary with the required fields.
ValidSummary ==
    [parties |-> << >>, key_facts |-> << >>, timeline |-> << >>, case_type |-> "other",
     summary |-> "text"]

\* The value of _parse_response(text) when text.keys() is missing raises
\* AttributeError: nothing is returned.
Raises == [raised |-> "AttributeError"]

\* Summarizer._call_api(system, messages) when create raises fault.
ApiError(fault) ==
    IF fault = "AuthenticationError"
    THEN [error |-> "auth_error", message |-> "Invalid ANTHROPIC_API_KEY. Check your .env file."]
    ELSE IF fault = "RateLimitError"
    THEN [error |-> "rate_limit", message |-> "API rate limit reached. Please wait and retry."]
    ELSE [error |-> "api_error", message |-> "Claude API error"]

\* Summarizer._parse_response(text)
ParseResponse(text) ==
    IF text = "summary" THEN ValidSummary
    ELSE IF text = "summary_with_error"
    THEN [parties |-> << >>, key_facts |-> << >>, timeline |-> << >>,
          case_type |-> "other", summary |-> "text", error |-> "none"]
    ELSE IF text = "not_json"
    THEN [error |-> "malformed_response",
          message |-> "Failed to parse API response as JSON", raw_response |-> text]
    ELSE IF text = "missing_fields"
    THEN [error |-> "incomplete_response",
          message |-> "API response missing required fields", raw_response |-> text]
    ELSE Raises

\* Summarizer._summarize_chunk(text) and _merge_summaries(summaries): the
\* value returned for the reply of the model.
Summarized(reply) == IF reply \in ApiFaults THEN ApiError(reply) ELSE ParseResponse(reply)

\* "error" in summary
IsError(s) == "error" \in DOMAIN s

\* Mutant of ChunkFailed: the loop goes on after an error.
ChunkFailed_Never(s) == FALSE

\* summarize, "Multi-chunk path": if "error" in result: return result
ChunkFailed(s) == IsError(s)

\* summary["metadata"] = {...}
WithMetadata(s, n) ==
    [parties |-> s.parties, key_facts |-> s.key_facts, timeline |-> s.timeline,
     case_type |-> s.case_type, summary |-> s.summary,
     metadata |-> [model |-> "DEFAULT_MODEL", chunks_processed |-> n,
                   filename |-> extraction.metadata.filename]]

\* str(n) for a page number.
RECURSIVE Decimal(_)
Decimal(n) ==
    LET digit == <<"0", "1", "2", "3", "4", "5", "6", "7", "8", "9">>[(n % 10) + 1]
    IN  IF n < 10 THEN <<digit>> ELSE Decimal(n \div 10) \o <<digit>>

\* f"[PAGE {pn}]\n{page['text']}"
AnnotatedPage(page) ==
    <<"[", "P", "A", "G", "E", " ">> \o Decimal(page.page_number) \o <<"]", "\n">>
        \o page.text

\* "\n\n".join(parts)
RECURSIVE Join(_)
Join(parts) ==
    IF parts = << >> THEN << >>
    ELSE IF Len(parts) = 1 THEN parts[1]
    ELSE parts[1] \o <<"\n", "\n">> \o Join(Tail(parts))

\* The pages _build_annotated_text takes for source_pages.
PagesInRange(ps, source_pages) ==
    LET first == IF source_pages # << >> /\ Len(source_pages) = 2
                 THEN source_pages[1] ELSE ps[1].page_number
        last == IF source_pages # << >> /\ Len(source_pages) = 2
                THEN source_pages[2] ELSE ps[Len(ps)].page_number
    IN  SelectSeq(ps, LAMBDA page : first <= page.page_number /\ page.page_number <= last)

\* Summarizer._build_annotated_text(pages, source_pages)
BuildAnnotatedText(ps, source_pages) ==
    IF ps = << >> THEN << >>
    ELSE LET taken == PagesInRange(ps, source_pages)
         IN  Join([k \in 1..Len(taken) |-> AnnotatedPage(taken[k])])

\* Summarizer._validate_extraction(extraction): the error dict, or NoSummary
\* for None.
ValidateExtraction(e) ==
    IF "error" \in DOMAIN e
    THEN [error |-> "invalid_extraction",
          message |-> <<"Extraction contains an error:", e.error>>]
    ELSE IF "chunks" \notin DOMAIN e \/ e.chunks = << >>
    THEN [error |-> "empty_extraction",
          message |-> <<"Extraction contains no text chunks to summarize.">>]
    ELSE NoSummary

\* The request _summarize_chunk sends for the chunk of the given place in
\* extraction["chunks"], and what came of it.
ChunkRequest(place, reply) ==
    [kind |-> "chunk", place |-> place, system |-> "SYSTEM_PROMPT",
     content |-> BuildAnnotatedText(extraction.pages,
                                    extraction.chunks[place].source_pages),
     returned |-> Summarized(reply)]

\* The request _merge_summaries sends, and what came of it.
MergeRequest(summaries, reply) ==
    [kind |-> "merge", place |-> 0, system |-> "MERGE_SYSTEM_PROMPT",
     content |-> [json |-> summaries], returned |-> Summarized(reply)]

\* summarize, up to the choice of the path: the API key and the extraction
\* are validated.
SummarizeBegin ==
    /\ spc = "Idle"
    /\ pc \in {"Done", "Failed"}
    /\ extraction' = result
    /\ chunk_summaries' = << >>
    /\ IF api_key = ""
       THEN /\ summary' = [error |-> "missing_api_key",
                           message |-> "ANTHROPIC_API_KEY is not set. Add it to your .env file."]
            /\ spc' = "Returned"
       ELSE IF ValidateExtraction(result) # NoSummary
       THEN /\ summary' = ValidateExtraction(result)
            /\ spc' = "Returned"
       ELSE /\ spc' = IF Len(result.chunks) = 1 THEN "SingleChunk" ELSE "ChunkLoop"
            /\ UNCHANGED summary
    /\ UNCHANGED <<pipelineVars, readerVars, limiterVars, api_key, model_calls>>

\* summarize, "Single-chunk path"
SummarizeSingle ==
    /\ spc = "SingleChunk"
    /\ \E reply \in Replies :
          LET request == ChunkRequest(1, reply)
          IN  /\ model_calls' = Append(model_calls, request)
              /\ IF request.returned = Raises
                 THEN spc' = "Raised" /\ UNCHANGED summary
                 ELSE /\ spc' = "Returned"
                      /\ summary' = IF IsError(request.returned) THEN request.returned
                                    ELSE WithMetadata(request.returned, 1)
    /\ UNCHANGED <<pipelineVars, readerVars, limiterVars, api_key, extraction, chunk_summaries>>

\* summarize, "Multi-chunk path": one turn of "for chunk in chunks"
SummarizeChunk ==
    /\ spc = "ChunkLoop"
    /\ Len(chunk_summaries) < Len(extraction.chunks)
    /\ \E reply \in Replies :
          LET request == ChunkRequest(Len(chunk_summaries) + 1, reply)
          IN  /\ model_calls' = Append(model_calls, request)
              /\ IF request.returned = Raises
                 THEN spc' = "Raised" /\ UNCHANGED <<summary, chunk_summaries>>
                 ELSE IF ChunkFailed(request.returned)
                 THEN /\ spc' = "Returned"
                      /\ summary' = request.returned
                      /\ UNCHANGED chunk_summaries
                 ELSE /\ chunk_summaries' = Append(chunk_summaries, request.returned)
                      /\ UNCHANGED <<spc, summary>>
    /\ UNCHANGED <<pipelineVars, readerVars, limiterVars, api_key, extraction>>

\* summarize, "Multi-chunk path": merged = self._merge_summaries(chunk_summaries)
MergeSummaries ==
    /\ spc = "ChunkLoop"
    /\ Len(chunk_summaries) = Len(extraction.chunks)
    /\ \E reply \in Replies :
          LET request == MergeRequest(chunk_summaries, reply)
          IN  /\ model_calls' = Append(model_calls, request)
              /\ IF request.returned = Raises
                 THEN spc' = "Raised" /\ UNCHANGED summary
                 ELSE /\ spc' = "Returned"
                      /\ summary' = IF IsError(request.returned) THEN request.returned
                                    ELSE WithMetadata(request.returned, Len(extraction.chunks))
    /\ UNCHANGED <<pipelineVars, readerVars, limiterVars, api_key, extraction, chunk_summaries>>

\* summarize(processor.process(path)): the documents of at most
\* MaxSummaryDocPages cleaned pages under every chunker configuration, and a
\* document process rejected; with and without an API key.
InitSummarize ==
    /\ InitReaders
    /\ InitLimiter
    /\ api_key \in {"", "sk"}
    /\ extraction = NoExtraction
    /\ spc = "Idle"
    /\ chunk_summaries = << >>
    /\ model_calls = << >>
    /\ summary = NoSummary
    /\ file = [exists |-> TRUE, is_pdf |-> TRUE, doc |-> << >>]
    /\ pdfminer_importable = TRUE
    /\ MAX_CHUNK_SIZE \in 1..MaxChunkSize
    /\ CHUNK_OVERLAP \in 0..MaxOverlap
    /\ validation = NoValidation
    /\ ocr_info = NoOcr
    /\ full_text = << >>
    /\ page_boundaries = << >>
    /\ pos = 0
    /\ chunk_index = 0
    /\ chunks = << >>
    /\ regions = << >>
    /\ calls = << >>
    /\ \/ /\ pc = "Chunking"
          /\ result = NoResult
          /\ \E d \in UNION {[1..n -> SummaryPageTexts] : n \in 0..MaxSummaryDocPages} :
                pages = [k \in 1..Len(d) |-> [page_number |-> k, cleaned_text |-> d[k]]]
       \/ /\ pc = "Failed"
          /\ result = ProtectedPdf
          /\ pages = << >>

NextSummarize ==
    \/ ChunkBegin
    \/ ChunkIterate
    \/ BuildResult
    \/ SummarizeBegin
    \/ SummarizeSingle
    \/ SummarizeChunk
    \/ MergeSummaries

SpecSummarize == InitSummarize /\ [][NextSummarize]_vars

\* summarize has returned a summary that is no error.
Summarized_Ok == spc = "Returned" /\ ~("error" \in DOMAIN summary)

\* C26: summarize on an extraction of n chunks sends the per-chunk requests
\* in chunk order; for n = 1 exactly one request is made, for n >= 2 exactly
\* n per-chunk requests and then one merge request; when a request returns an
\* error, that error is returned at once and no later request is made; an
\* extraction with an error or without chunks is rejected with no request.
C26_CallsInChunkOrderThenMerge ==
    spc # "Idle" =>
       LET rejected == api_key = "" \/ ValidateExtraction(extraction) # NoSummary
           n == IF rejected THEN 0 ELSE Len(extraction.chunks)
       IN  /\ rejected => /\ model_calls = << >>
                          /\ spc = "Returned"
                          /\ "error" \in DOMAIN summary
           /\ ("error" \in DOMAIN extraction \/ extraction.chunks = << >>) =>
                 model_calls = << >>
           /\ \A k \in 1..Len(model_calls) :
                 /\ k <= n => /\ model_calls[k].kind = "chunk"
                              /\ model_calls[k].place = k
                              /\ model_calls[k].content =
                                    BuildAnnotatedText(extraction.pages,
                                                       extraction.chunks[k].source_pages)
                 /\ k > n => /\ model_calls[k].kind = "merge"
                             /\ k = n + 1
                             /\ n >= 2
                 /\ k < Len(model_calls) => /\ model_calls[k].returned # Raises
                                            /\ ~("error" \in DOMAIN model_calls[k].returned)
           /\ Summarized_Ok => Len(model_calls) = IF n = 1 THEN 1 ELSE n + 1
           /\ (model_calls # << >>
                 /\ model_calls[Len(model_calls)].returned # Raises
                 /\ "error" \in DOMAIN model_calls[Len(model_calls)].returned) =>
                 /\ spc = "Returned"
                 /\ summary = model_calls[Len(model_calls)].returned

C26_Witness ==
    /\ Summarized_Ok
    /\ Len(extraction.chunks) = 3
    /\ Len(model_calls) = 4
    /\ model_calls[4].kind = "merge"
    /\ model_calls[1].content # model_calls[3].content

\* The characters of page text in a list of pages.
RECURSIVE TotalLength(_)
TotalLength(ps) == IF ps = << >> THEN 0 ELSE Len(ps[1].text) + TotalLength(Tail(ps))

\* The page text a per-chunk request carries: its content without the
\* [PAGE N] markers and the separators between the pages.
PageTextSent(request) ==
    LET taken == PagesInRange(extraction.pages,
                              extraction.chunks[request.place].source_pages)
        marked == [k \in 1..Len(taken) |-> [text |-> AnnotatedPage(taken[k])]]
    IN  Len(request.content)
           - (TotalLength(marked) - TotalLength(taken))
           - 2 * (Len(taken) - 1)

\* C30: for every extraction process produced and every chunk in it, the
\* page text the summarizer puts in the request for that chunk (the text of
\* the pages in the chunk's source_pages range, without markers and
\* separators) is at most MAX_CHUNK_SIZE characters long.
C30_RequestWithinChunkSize ==
    \A k \in 1..Len(model_calls) :
       model_calls[k].kind = "chunk" => PageTextSent(model_calls[k]) <= MAX_CHUNK_SIZE

\* C27: in every output of _chunk_pages the chunk_index values are exactly
\* 0, 1, ..., n-1 in list order, without gap or repeat (a region that trims
\* to empty is skipped and takes no index), no chunk of the multi-chunk path
\* has empty text, and every chunk has char_count = length(text).
C27_ChunkIndexContiguous ==
    pc \in {"ChunkLoop", "Assembling", "Done"} =>
       /\ \A k \in 1..Len(chunks) :
             /\ chunks[k].chunk_index = k - 1
             /\ chunks[k].char_count = Len(chunks[k].text)
             /\ Len(full_text) > MAX_CHUNK_SIZE => chunks[k].text # << >>
       /\ Len(chunks) = Len(EmittedRegions)
       /\ pc = "ChunkLoop" => chunk_index = Len(chunks)
       /\ pc = "Done" => result.chunks = chunks

C27_Witness ==
    /\ pc = "Done"
    /\ Len(result.chunks) >= 3
    /\ \E k \in 1..(Len(regions) - 2) :
          /\ regions[k].emitted
          /\ ~regions[k + 1].emitted
          /\ regions[k + 2].emitted

(***************************************************************************)
(* The cleaner on line structure (specification SpecCleanLines): raw texts *)
(* of letters, line breaks, spaces, tabs and form feeds.                   *)
(***************************************************************************)
\* Line-structure specification: most characters in a raw page text.
MaxLineChars == 6

\* The characters the raw page texts are made of.
LineChars == {"A", "\n", " ", "\t", "\f"}

\* The texts of at most n of these characters.
LineTexts(n) == UNION {[1..m -> LineChars] : m \in 0..n}

\* The cleaning loop of process on a page with every such raw text.
InitCleanLines ==
    /\ InitComponents
    /\ \E t \in LineTexts(MaxLineChars) :
          /\ file = [exists |-> TRUE, is_pdf |-> TRUE, doc |-> <<t>>]
          /\ pages = ExtractedPages(<<t>>)
    /\ pdfminer_importable = TRUE
    /\ MAX_CHUNK_SIZE = DEFAULT_MAX_CHUNK_SIZE
    /\ CHUNK_OVERLAP = DEFAULT_CHUNK_OVERLAP
    /\ pc = "Cleaning"
    /\ validation = NoValidation
    /\ ocr_info = NoOcr
    /\ full_text = << >>
    /\ page_boundaries = << >>
    /\ pos = 0
    /\ chunk_index = 0
    /\ chunks = << >>
    /\ regions = << >>
    /\ calls = << >>
    /\ result = NoResult

NextCleanLines == Clean

SpecCleanLines == InitCleanLines /\ [][NextCleanLines]_vars

\* The text holds three line breaks in a row.
HasNewlineRun(text) ==
    \E i \in 1..(Len(text) - 2) :
        text[i] = "\n" /\ text[i + 1] = "\n" /\ text[i + 2] = "\n"

\* The text holds a form feed.
HasFormFeed(text) == \E i \in 1..Len(text) : text[i] = "\f"

\* A line of the text ends in a space or a tab.
HasTrailingWs(text) ==
    \E i \in 1..Len(text) :
        /\ text[i] \in {" ", "\t"}
        /\ i = Len(text) \/ text[i + 1] = "\n"

\* C28 as claimed: for every input text the output of _clean_text holds no
\* run of three or more consecutive newline characters, no form feed, and
\* no line ending in a space or tab.
C28_CleanedTextNormalised ==
    Cleaned =>
        \A k \in 1..Len(pages) :
            /\ ~HasNewlineRun(pages[k].cleaned_text)
            /\ ~HasFormFeed(pages[k].cleaned_text)
            /\ ~HasTrailingWs(pages[k].cleaned_text)

\* The two parts of C28 that hold: no form feed and no line ending in a
\* space or tab in the output of _clean_text.
CleanedNoFormFeedNoTrailingWs ==
    Cleaned =>
        \A k \in 1..Len(pages) :
            /\ ~HasFormFeed(pages[k].cleaned_text)
            /\ ~HasTrailingWs(pages[k].cleaned_text)

====
